---- MODULE Spec2Model ----
(***************************************************************************)
(* A model of the iCloud download manager (src/archive/program.py) and of  *)
(* the music walk of src/main.py, which has a state of its own (tree,      *)
(* walk).                                                                  *)
(*                                                                         *)
(* The world holds one file.  The state records its absolute path, its     *)
(* extended attributes, its reported size and the number of bytes that can *)
(* really be read from it, together with the outcome of the last           *)
(* classification, verification and orchestrator run and a log of every    *)
(* mutation the program applied.                                           *)
(***************************************************************************)
EXTENDS Integers, Sequences, FiniteSets, TLC

VARIABLES
    fs,       \* the file: path, exists, access, size, resident, readfail, attrs, deny
    pc,       \* where the program is: at the menu, or inside remove_download_smart
    mi,       \* index into methods of the strategy to try next
    arg,      \* the path the current or last operation works on
    orig,     \* initial_size of the run / original_size of the last verify_eviction
    status,   \* the last status get_icloud_file_status returned (None: it failed)
    vres,     \* what the last verify_eviction returned: [confirmed, reason]
    result,   \* what the last remove_download_smart returned: "True", "False", "None"
    log,      \* the calls the current or last operation made, in order
    op,       \* the current or last operation
    nops,     \* menu operations started so far
    nprov,    \* provider steps taken during the current operation
    file_paths, \* the list a batch works through
    results,  \* the {file, success} entries the batch has appended so far
    tree,     \* src/main.py: the files below the folder it walks, by path
    walk      \* src/main.py: the directory os.walk is in, its files and the
              \* directories still to visit

\* what only a batch changes
batchvars == <<file_paths, results>>

\* what only src/main.py reads and writes
mainvars == <<tree, walk>>

vars == <<fs, pc, mi, arg, orig, status, vres, result, log, op, nops, nprov,
          file_paths, results, tree, walk>>

\* get_icloud_file_status returned None
None == [is_none |-> TRUE]

\* original_size=None
NoSize == -1

\* bounds of the model
MaxAttrs == 2       \* attributes on the file when it is only classified
RunMaxAttrs == 1    \* attributes on the file before a menu session
MaxOps == 2         \* menu operations in a session
MaxProvider == 1    \* changes the provider makes to the file during one operation

(***************************************************************************)
(* Strings: Python's `in` on str and str.startswith.                       *)
(***************************************************************************)
Contains(s, sub) ==
    \E i \in 1..(Len(s) - Len(sub) + 1) : SubSeq(s, i, i + Len(sub) - 1) = sub

StartsWith(s, p) ==
    /\ Len(s) >= Len(p)
    /\ SubSeq(s, 1, Len(p)) = p

(***************************************************************************)
(* Paths.  Home is what "~" expands to and Cwd the working directory of    *)
(* the process; a relative path is resolved against Cwd by abspath.        *)
(***************************************************************************)
Home == "/Users/u"

icloud_drive_path == Home \o "/Library/Mobile Documents/com~apple~CloudDocs"

Cwd == icloud_drive_path

abspath(p) == IF StartsWith(p, "/") THEN p ELSE Cwd \o "/" \o p

\* The file lies in the directory d or below it.
Under(absp, d) == StartsWith(absp, d \o "/")

RootFile == icloud_drive_path \o "/a.mp3"
SiblingFile == icloud_drive_path \o "Backup/a.mp3"
DocFile == Home \o "/Documents/a.mp3"

\* where the one file of the world may live
FilePaths == {RootFile, SiblingFile, DocFile}

\* what a user may type for the file at absolute path absp
PathInputs(absp) ==
    {absp} \cup (IF absp = RootFile THEN {"a.mp3"} ELSE {})

(***************************************************************************)
(* Extended attributes.                                                    *)
(***************************************************************************)
FP_MATERIALIZED == "com.apple.file-provider.materialized"
IC_MATERIALIZED == "com.apple.icloud.materialized"
FP_DOWNLOADING == "com.apple.file-provider.downloading"
IC_DOWNLOADING == "com.apple.icloud.downloading"
IC_PLACEHOLDER == "com.apple.icloud.placeholder"
FP_PLACEHOLDER == "com.apple.file-provider.placeholder"
FP_POLICY == "com.apple.file-provider.download-policy"
CD_POLICY == "com.apple.clouddocs.download-policy"
FP_AUTO == "com.apple.file-provider.auto-download"
CD_AUTO == "com.apple.clouddocs.auto-download"
FP_EVICTED == "com.apple.file-provider.evicted"

\* names the program never writes: an upper-case CloudDocs one, two that
\* carry no provider namespace, one that carries it in the middle
CLOUDDOCS_ITEM == "com.apple.CloudDocs.item"
QUARANTINE == "com.apple.quarantine"
FINDER_INFO == "com.apple.FinderInfo"
USER_TAG == "user.com.apple.icloud.tag"

AttrNames ==
    { FP_MATERIALIZED, IC_MATERIALIZED, FP_DOWNLOADING, IC_DOWNLOADING,
      IC_PLACEHOLDER, FP_PLACEHOLDER, FP_POLICY, CD_POLICY, FP_AUTO, CD_AUTO,
      FP_EVICTED, CLOUDDOCS_ITEM, QUARANTINE, FINDER_INFO, USER_TAG }

Absent == "<absent>"
\* listed by listxattr, but getxattr raises OSError
Unreadable == "<unreadable>"

\* raw values a materialized attribute is given in the model
MatValues == {"1", "true", "True", "0", "false", "False", "yes", "", Unreadable}

listxattr(f) == {n \in AttrNames : f.attrs[n] # Absent}

\* removexattr: OSError when the name is denied or not present
removexattr(f, name) ==
    IF name \in f.deny \/ f.attrs[name] = Absent
    THEN f
    ELSE [f EXCEPT !.attrs[name] = Absent]

\* the file a path names, if any
Resolves(f, p) == f.exists /\ abspath(p) = f.path

(***************************************************************************)
(* get_icloud_file_status: the classifier.                                 *)
(***************************************************************************)
icloud_indicators ==
    {"com.apple.file-provider", "com.apple.icloud", "com.apple.CloudDocs",
     "com.apple.clouddocs"}

materialized_attrs == <<FP_MATERIALIZED, IC_MATERIALIZED>>

downloading_attrs == {FP_DOWNLOADING, IC_DOWNLOADING}

placeholder_indicators == {IC_PLACEHOLDER, FP_PLACEHOLDER}

Min(a, b) == IF a < b THEN a ELSE b

\* the names, of all the model knows, in which an indicator occurs
IndicatedNames ==
    {a \in AttrNames : \E ind \in icloud_indicators : Contains(a, ind)}

\* the attributes that carry a provider namespace (lines 295-300)
icloud_attrs(attrs) == attrs \cap IndicatedNames

\* every folder under the home directory taken for a cloud folder
is_icloud_file_by_home(attrs, file_path) ==
    \/ icloud_attrs(attrs) # {}
    \/ StartsWith(file_path, Home)

\* lines 307-318: provider attributes, or the path as given starts with the root
is_icloud_file(attrs, file_path) ==
    \/ icloud_attrs(attrs) # {}
    \/ StartsWith(file_path, icloud_drive_path)

\* lines 339-360: what one raw value of a materialized attribute means
value_is_downloaded(v) ==
    IF v = Unreadable THEN FALSE
    ELSE IF v \in {"1", "true", "True"} THEN TRUE
    ELSE IF v \in {"0", "false", "False"} THEN FALSE
    ELSE v # ""

\* the loop without its breaks: a later attribute overrides an earlier one
materialized_downloaded_last_wins(f, attrs) ==
    IF materialized_attrs[2] \in attrs
    THEN value_is_downloaded(f.attrs[materialized_attrs[2]])
    ELSE IF materialized_attrs[1] \in attrs
    THEN value_is_downloaded(f.attrs[materialized_attrs[1]])
    ELSE FALSE

\* lines 331-360: the first materialized attribute present decides
materialized_downloaded(f, attrs) ==
    IF materialized_attrs[1] \in attrs
    THEN value_is_downloaded(f.attrs[materialized_attrs[1]])
    ELSE IF materialized_attrs[2] \in attrs
    THEN value_is_downloaded(f.attrs[materialized_attrs[2]])
    ELSE FALSE

\* lines 375-389: explicit placeholder wins, else placeholder by elimination
placeholder_rule(s, attrs) ==
    IF placeholder_indicators \cap attrs # {}
    THEN [s EXCEPT !.is_placeholder = TRUE, !.is_downloaded = FALSE]
    ELSE IF ~s.is_downloaded
    THEN [s EXCEPT !.is_placeholder = TRUE]
    ELSE s

\* len(f.read(min(2048, size))) for a file with f.resident readable bytes
read_len(f, size) == Min(f.resident, Min(2048, size))

\* the probe with a full read that sets is_downloaded and leaves is_placeholder
content_probe_keeps_placeholder(s, f) ==
    IF ~(s.file_size > 1024) THEN s
    ELSE IF f.readfail
    THEN IF s.file_size > 10000
         THEN [s EXCEPT !.is_placeholder = TRUE, !.is_downloaded = FALSE]
         ELSE s
    ELSE LET n == read_len(f, s.file_size)
         IN  IF n = 0 /\ s.file_size > 0
             THEN [s EXCEPT !.is_placeholder = TRUE, !.is_downloaded = FALSE]
             ELSE IF n >= Min(1024, s.file_size)
             THEN [s EXCEPT !.is_downloaded = TRUE]
             ELSE IF s.file_size > 10000 /\ n < 1000
             THEN [s EXCEPT !.is_placeholder = TRUE, !.is_downloaded = FALSE]
             ELSE s

\* the probe run from 1024 bytes on instead of above 1024
content_probe_from_1024(s, f) ==
    IF ~(s.file_size >= 1024) THEN s
    ELSE IF f.readfail
    THEN IF s.file_size > 10000
         THEN [s EXCEPT !.is_placeholder = TRUE, !.is_downloaded = FALSE]
         ELSE s
    ELSE LET n == read_len(f, s.file_size)
         IN  IF n = 0 /\ s.file_size > 0
             THEN [s EXCEPT !.is_placeholder = TRUE, !.is_downloaded = FALSE]
             ELSE IF n >= Min(1024, s.file_size)
             THEN IF ~s.is_downloaded
                  THEN [s EXCEPT !.is_downloaded = TRUE, !.is_placeholder = FALSE]
                  ELSE s
             ELSE IF s.file_size > 10000 /\ n < 1000
             THEN [s EXCEPT !.is_placeholder = TRUE, !.is_downloaded = FALSE]
             ELSE s

\* the probe without the size and length thresholds of lines 413 and 421:
\* every failed or partial read forces the placeholder flags
content_probe_without_thresholds(s, f) ==
    IF ~(s.file_size > 1024) THEN s
    ELSE IF f.readfail
    THEN [s EXCEPT !.is_placeholder = TRUE, !.is_downloaded = FALSE]
    ELSE LET n == read_len(f, s.file_size)
         IN  IF n = 0 /\ s.file_size > 0
             THEN [s EXCEPT !.is_placeholder = TRUE, !.is_downloaded = FALSE]
             ELSE IF n >= Min(1024, s.file_size)
             THEN IF ~s.is_downloaded
                  THEN [s EXCEPT !.is_downloaded = TRUE, !.is_placeholder = FALSE]
                  ELSE s
             ELSE [s EXCEPT !.is_placeholder = TRUE, !.is_downloaded = FALSE]

\* lines 393-423: the content probe
content_probe(s, f) ==
    IF ~(s.file_size > 1024) THEN s
    ELSE IF f.readfail
    THEN IF s.file_size > 10000
         THEN [s EXCEPT !.is_placeholder = TRUE, !.is_downloaded = FALSE]
         ELSE s
    ELSE LET n == read_len(f, s.file_size)
         IN  IF n = 0 /\ s.file_size > 0
             THEN [s EXCEPT !.is_placeholder = TRUE, !.is_downloaded = FALSE]
             ELSE IF n >= Min(1024, s.file_size)
             THEN IF ~s.is_downloaded
                  THEN [s EXCEPT !.is_downloaded = TRUE, !.is_placeholder = FALSE]
                  ELSE s
             ELSE IF s.file_size > 10000 /\ n < 1000
             THEN [s EXCEPT !.is_placeholder = TRUE, !.is_downloaded = FALSE]
             ELSE s

\* lines 324-423: the download state of a cloud file
download_state(s0, f, attrs) ==
    LET s1 == [s0 EXCEPT
                 !.is_downloaded = materialized_downloaded(f, attrs),
                 !.is_downloading = (downloading_attrs \cap attrs # {})]
    IN  content_probe(placeholder_rule(s1, attrs), f)

\* lines 320-322 dropped: every file is inspected further
inspect_every_file(s0, f, attrs) == download_state(s0, f, attrs)

\* lines 320-425: a file that is no cloud file is not inspected further
inspect(s0, f, attrs) ==
    IF ~s0.is_icloud_file THEN s0 ELSE download_state(s0, f, attrs)

\* the classifier with a defaulted status where lines 427-429 return None
get_icloud_file_status_defaulting(f, file_path) ==
    LET attrs == IF ~Resolves(f, file_path) \/ f.access = "nolist"
                 THEN {} ELSE listxattr(f)
        s0 == [ is_icloud_file |-> is_icloud_file(attrs, file_path),
                is_downloaded  |-> FALSE,
                is_downloading |-> FALSE,
                is_placeholder |-> FALSE,
                file_size      |-> IF ~Resolves(f, file_path) \/ f.access # "ok"
                                   THEN 0 ELSE f.size,
                attributes     |-> attrs ]
    IN  IF ~Resolves(f, file_path) \/ f.access = "nolist"
        THEN s0
        ELSE inspect(s0, f, attrs)

\* lines 266-429
get_icloud_file_status(f, file_path) ==
    IF ~Resolves(f, file_path) \/ f.access = "nolist"
    THEN None
    ELSE LET attrs == listxattr(f)
             s0 == [ is_icloud_file |-> is_icloud_file(attrs, file_path),
                     is_downloaded  |-> FALSE,
                     is_downloading |-> FALSE,
                     is_placeholder |-> FALSE,
                     file_size      |-> IF f.access = "nostat" THEN 0 ELSE f.size,
                     attributes     |-> attrs ]
         IN  inspect(s0, f, attrs)

(***************************************************************************)
(* verify_eviction (the 2 s sleep before it changes no state of its own).  *)
(***************************************************************************)
policy_attrs == {FP_POLICY, CD_POLICY, FP_AUTO, CD_AUTO, FP_EVICTED}

\* Python truth of original_size: None and 0 are false
Truthy(original_size) == original_size # NoSize /\ original_size # 0

\* the size test with "at most 10%" for "less than 10%"
size_reduced_inclusive(current_size, original_size) ==
    10 * current_size <= original_size

\* current_size < original_size * 0.1 (line 533).  For sizes below 2^50 the
\* double product is exact enough that this is 10 * current < original.
size_reduced(current_size, original_size) == 10 * current_size < original_size

Verdict(c, r) == [confirmed |-> c, reason |-> r]

\* verify_eviction with the size test tried before the placeholder test
verify_eviction_size_first(f, file_path, original_size) ==
    LET st == get_icloud_file_status(f, file_path)
    IN  IF st = None THEN Verdict(FALSE, "no_status")
        ELSE IF Truthy(original_size) /\ size_reduced(st.file_size, original_size)
        THEN Verdict(TRUE, "size_reduced")
        ELSE IF st.is_placeholder THEN Verdict(TRUE, "placeholder")
        ELSE IF ~st.is_downloaded THEN Verdict(TRUE, "not_downloaded")
        ELSE IF ~(\E i \in 1..Len(materialized_attrs) :
                     materialized_attrs[i] \in st.attributes)
        THEN Verdict(TRUE, "materialized_removed")
        ELSE IF /\ Truthy(original_size)
                /\ st.file_size = original_size
                /\ policy_attrs \cap st.attributes # {}
        THEN Verdict(TRUE, "policy")
        ELSE Verdict(FALSE, "still_downloaded")

\* the verifier without the lenient rule of lines 547-569
verify_eviction_without_policy_rule(f, file_path, original_size) ==
    LET st == get_icloud_file_status(f, file_path)
    IN  IF st = None THEN Verdict(FALSE, "no_status")
        ELSE IF st.is_placeholder THEN Verdict(TRUE, "placeholder")
        ELSE IF ~st.is_downloaded THEN Verdict(TRUE, "not_downloaded")
        ELSE IF Truthy(original_size) /\ size_reduced(st.file_size, original_size)
        THEN Verdict(TRUE, "size_reduced")
        ELSE IF ~(\E i \in 1..Len(materialized_attrs) :
                     materialized_attrs[i] \in st.attributes)
        THEN Verdict(TRUE, "materialized_removed")
        ELSE Verdict(FALSE, "still_downloaded")

\* a verifier that takes a path it cannot classify for an evicted file
verify_eviction_trusting_absence(f, file_path, original_size) ==
    LET st == get_icloud_file_status(f, file_path)
    IN  IF st = None THEN Verdict(TRUE, "no_status")
        ELSE IF st.is_placeholder THEN Verdict(TRUE, "placeholder")
        ELSE IF ~st.is_downloaded THEN Verdict(TRUE, "not_downloaded")
        ELSE IF Truthy(original_size) /\ size_reduced(st.file_size, original_size)
        THEN Verdict(TRUE, "size_reduced")
        ELSE IF ~(\E i \in 1..Len(materialized_attrs) :
                     materialized_attrs[i] \in st.attributes)
        THEN Verdict(TRUE, "materialized_removed")
        ELSE IF /\ Truthy(original_size)
                /\ st.file_size = original_size
                /\ policy_attrs \cap st.attributes # {}
        THEN Verdict(TRUE, "policy")
        ELSE Verdict(FALSE, "still_downloaded")

\* lines 509-574
verify_eviction(f, file_path, original_size) ==
    LET st == get_icloud_file_status(f, file_path)
    IN  IF st = None THEN Verdict(FALSE, "no_status")
        ELSE IF st.is_placeholder THEN Verdict(TRUE, "placeholder")
        ELSE IF ~st.is_downloaded THEN Verdict(TRUE, "not_downloaded")
        ELSE IF Truthy(original_size) /\ size_reduced(st.file_size, original_size)
        THEN Verdict(TRUE, "size_reduced")
        ELSE IF ~(\E i \in 1..Len(materialized_attrs) :
                     materialized_attrs[i] \in st.attributes)
        THEN Verdict(TRUE, "materialized_removed")
        ELSE IF /\ Truthy(original_size)
                /\ st.file_size = original_size
                /\ policy_attrs \cap st.attributes # {}
        THEN Verdict(TRUE, "policy")
        ELSE Verdict(FALSE, "still_downloaded")

(***************************************************************************)
(* Attribute writers.                                                      *)
(***************************************************************************)
RECURSIVE write_attrs(_, _, _)
\* the attributes after setxattr for each (name, value) of a list, an
\* OSError (name denied) skipping that one
write_attrs(attrs, deny, pairs) ==
    IF pairs = <<>> THEN attrs
    ELSE write_attrs(IF pairs[1][1] \in deny THEN attrs
                     ELSE [attrs EXCEPT ![pairs[1][1]] = pairs[1][2]],
                     deny, Tail(pairs))

\* setxattr for each (name, value) of a list, an OSError skipping that one
write_all(f, pairs) == [f EXCEPT !.attrs = write_attrs(f.attrs, f.deny, pairs)]

policy_attributes ==
    << <<FP_POLICY, "never">>, <<FP_POLICY, "0">>,
       <<CD_POLICY, "never">>, <<CD_POLICY, "0">>,
       <<FP_AUTO, "0">>, <<FP_AUTO, "false">>,
       <<CD_AUTO, "0">>, <<CD_AUTO, "false">>,
       <<FP_EVICTED, "1">>, <<FP_EVICTED, "true">>,
       <<FP_MATERIALIZED, "0">>, <<FP_MATERIALIZED, "false">>,
       <<FP_PLACEHOLDER, "1">>, <<FP_PLACEHOLDER, "true">> >>

\* prevent_auto_redownload: the file afterwards (untouched when the path
\* names no existing file)
prevent_auto_redownload(f, file_path) ==
    IF ~Resolves(f, file_path) THEN f ELSE write_all(f, policy_attributes)

eviction_attempts ==
    << <<FP_POLICY, "never">>, <<FP_POLICY, "0">>,
       <<CD_POLICY, "never">>, <<CD_POLICY, "0">>,
       <<FP_AUTO, "0">>, <<FP_AUTO, "false">>,
       <<CD_AUTO, "0">>, <<CD_AUTO, "false">>,
       <<FP_EVICTED, "1">>, <<FP_EVICTED, "true">> >>

\* remove_download_xattr: the file afterwards
xattr_effect(f, file_path) ==
    IF ~Resolves(f, file_path) \/ f.access = "nostat" THEN f
    ELSE LET f1 == removexattr(f, FP_MATERIALIZED)
             f2 == write_all(f1, eviction_attempts)
             f3 == write_all(f2, << <<FP_MATERIALIZED, "0">>,
                                    <<FP_MATERIALIZED, "false">> >>)
         IN  write_all(f3, << <<FP_PLACEHOLDER, "1">>,
                              <<FP_PLACEHOLDER, "true">> >>)

\* a strategy that reports whether it changed any attribute
remove_download_xattr_if_changed(f, file_path) ==
    /\ Resolves(f, file_path)
    /\ f.access # "nostat"
    /\ xattr_effect(f, file_path) # f

\* remove_download_xattr: its return value
remove_download_xattr(f, file_path) ==
    Resolves(f, file_path) /\ f.access # "nostat"

\* what an external command does when run: not installed, non-zero exit, exit 0
ToolOutcomes == {"missing", "fail", "ok"}

\* remove_download_brctl, remove_download_applescript, remove_download_evict:
\* True iff the file exists and the evicting command exits 0
remove_download_tool(f, file_path, outcome) ==
    Resolves(f, file_path) /\ outcome = "ok"

\* the list with the attribute strategy moved to the front
methods_xattr_first == <<"xattr", "brctl", "AppleScript", "evict">>

\* lines 600-605
methods == <<"brctl", "AppleScript", "xattr", "evict">>

(***************************************************************************)
(* Exceptions.  A collaborator raises; the callee's handlers catch the      *)
(* classes they name, "Exception" and a bare except catch each class of    *)
(* the model; what is not caught reaches the caller.                       *)
(***************************************************************************)
\* subprocess.run: FileNotFoundError when the command is not installed,
\* CalledProcessError when check=True and the exit status is not 0
command_raises(outcome) ==
    CASE outcome = "missing" -> {"FileNotFoundError"}
      [] outcome = "fail" -> {"CalledProcessError"}
      [] OTHER -> {}

\* the attributes remove_download_xattr and prevent_auto_redownload write
written_names == {policy_attributes[i][1] : i \in 1..Len(policy_attributes)}

\* the exceptions raised inside a call by what it calls
raised_in(call, f, file_path, outcome) ==
    CASE call \in {"brctl", "AppleScript"} ->
            IF Resolves(f, file_path) THEN command_raises(outcome) ELSE {}
      [] call = "evict" ->
            \* "which evict" and "evict" both run with check=True
            IF Resolves(f, file_path) /\ outcome # "ok"
            THEN {"CalledProcessError"} ELSE {}
      [] call = "xattr" ->
            IF Resolves(f, file_path)
                  /\ \/ f.access = "nostat"
                     \/ f.attrs[FP_MATERIALIZED] = Absent
                     \/ written_names \cap f.deny # {}
            THEN {"OSError"} ELSE {}
      [] call = "prevent" ->
            \* setxattr denied; brctl download --policy never, check=True
            IF Resolves(f, file_path)
            THEN (IF written_names \cap f.deny # {} THEN {"OSError"} ELSE {})
                    \cup {"FileNotFoundError", "CalledProcessError"}
            ELSE {}
      [] call = "verify" ->
            \* listxattr inside get_icloud_file_status
            IF ~Resolves(f, file_path) \/ f.access = "nolist"
            THEN {"OSError"} ELSE {}

\* the handlers with the catch-alls left out
handlers_named_only(call) ==
    CASE call = "brctl" -> {"CalledProcessError", "FileNotFoundError"}
      [] call = "AppleScript" -> {"CalledProcessError"}
      [] call = "xattr" -> {"OSError"}
      [] call = "evict" -> {"CalledProcessError"}
      [] call = "prevent" -> {"OSError"}
      [] call = "verify" -> {}

\* the except clauses between the raise and the caller
handlers(call) ==
    CASE call = "brctl" -> {"CalledProcessError", "FileNotFoundError", "Exception"}
      [] call = "AppleScript" -> {"CalledProcessError", "Exception"}
      [] call = "xattr" -> {"OSError", "Exception"}
      [] call = "evict" -> {"CalledProcessError", "Exception"}
      [] call = "prevent" -> {"OSError", "BaseException", "Exception"}
      [] call = "verify" -> {"Exception"}

\* the exceptions that leave the call
propagated(call, f, file_path, outcome) ==
    {e \in raised_in(call, f, file_path, outcome) :
        /\ e \notin handlers(call)
        /\ "Exception" \notin handlers(call)
        /\ "BaseException" \notin handlers(call)}

(***************************************************************************)
(* The call log.  Each entry names a call the operation made, its outcome  *)
(* and whether the classifier, given the absolute path of the target,      *)
(* reports a cloud file at that moment.                                    *)
(***************************************************************************)
IsCloud(f, p) ==
    LET s == get_icloud_file_status(f, abspath(p))
    IN  s # None /\ s.is_icloud_file

Entry(call, out, f, p) ==
    [call |-> call,
     out |-> IF Resolves(f, p) THEN out ELSE "nofile",
     cloud |-> IsCloud(f, p)]

NoVerdict == Verdict(FALSE, "none")

InRun == pc \in {"try", "verify", "delayed", "final"}

(***************************************************************************)
(* remove_download_smart, one action per stretch between its sleeps.       *)
(***************************************************************************)
\* the entry checks without the already-evicted return of lines 592-594
entry_checks_evict_anyway(f, abs_path, initial_status) ==
    IF ~Resolves(f, abs_path) THEN "False"
    ELSE IF initial_status = None \/ ~initial_status.is_icloud_file THEN "False"
    ELSE "None"

\* lines 582-594: what remove_download_smart returns before any strategy
\* ("None": it returns nothing yet and goes on to the strategies)
entry_checks(f, abs_path, initial_status) ==
    IF ~Resolves(f, abs_path) THEN "False"
    ELSE IF initial_status = None \/ ~initial_status.is_icloud_file THEN "False"
    ELSE IF ~initial_status.is_downloaded THEN "True"
    ELSE "None"

\* lines 580-597: menu choice 1 on path p, up to the first strategy
Start(p) ==
    /\ pc = "menu"
    /\ nops < MaxOps
    /\ LET abs_path == abspath(p)
           initial_status == get_icloud_file_status(fs, abs_path)
           early == entry_checks(fs, abs_path, initial_status)
       IN  /\ arg' = abs_path
           /\ status' = initial_status
           /\ result' = early
           /\ IF early = "None"
              THEN /\ pc' = "try" /\ orig' = initial_status.file_size
              ELSE /\ pc' = "menu" /\ orig' = NoSize
    /\ op' = "smart"
    /\ nops' = nops + 1
    /\ log' = <<>>
    /\ vres' = NoVerdict
    /\ mi' = 1
    /\ nprov' = 0
    /\ UNCHANGED fs
    /\ UNCHANGED <<batchvars, mainvars>>

\* a loop that starts over with the first strategy when the last one failed
Advance_from_the_top ==
    IF mi < Len(methods)
    THEN /\ mi' = mi + 1 /\ pc' = "try"
    ELSE /\ mi' = 1 /\ pc' = "try"

\* lines 607-634: after a failed strategy or an unconfirmed verification
Advance ==
    IF mi < Len(methods)
    THEN /\ mi' = mi + 1 /\ pc' = "try"
    ELSE /\ mi' = mi /\ pc' = "delayed"

\* the operations that run remove_download_smart in a loop over a list
BatchOps == {"batch", "choice3", "choice7"}

\* where remove_download_smart returns to: the loop that called it (lines
\* 444 and 926) or the menu (line 756)
return_to == IF op \in BatchOps THEN "collect" ELSE "menu"

\* an exception leaves a call made by remove_download_smart, which has no
\* handler: the run ends without a return value
Raise(call, f) ==
    /\ fs' = f
    /\ log' = Append(log, [call |-> call, out |-> "raise", cloud |-> IsCloud(f, arg)])
    /\ pc' = return_to
    /\ result' = "raise"
    /\ mi' = mi

\* the loop without line 615: a strategy that returned True is verified
\* with no policy write before the verification
Try_without_policy(outcome) ==
    /\ pc = "try"
    /\ methods[mi] = "xattr" => outcome = "ok"
    /\ LET name == methods[mi]
           returned == IF name = "xattr"
                       THEN remove_download_xattr(fs, arg)
                       ELSE remove_download_tool(fs, arg, outcome)
           f1 == IF name = "xattr" THEN xattr_effect(fs, arg) ELSE fs
       IN  /\ fs' = f1
           /\ log' = Append(log, Entry(name, outcome, fs, arg))
           /\ IF returned THEN pc' = "verify" /\ mi' = mi ELSE Advance
    /\ UNCHANGED <<arg, orig, status, vres, result, op, nops, nprov>>
    /\ UNCHANGED <<batchvars, mainvars>>

\* lines 607-615: invoke methods[mi]; when it returns True, set the policies
Try(outcome) ==
    /\ pc = "try"
    /\ methods[mi] = "xattr" => outcome = "ok"
    /\ LET name == methods[mi]
           returned == IF name = "xattr"
                       THEN remove_download_xattr(fs, arg)
                       ELSE remove_download_tool(fs, arg, outcome)
           f1 == IF name = "xattr" THEN xattr_effect(fs, arg) ELSE fs
       IN  IF propagated(name, fs, arg, outcome) # {}
           THEN Raise(name, fs)
           ELSE IF returned /\ propagated("prevent", f1, arg, outcome) # {}
           THEN Raise("prevent", f1)
           ELSE IF returned
           THEN /\ fs' = prevent_auto_redownload(f1, arg)
                /\ log' = log \o <<Entry(name, outcome, fs, arg),
                                   Entry("prevent", "-", f1, arg)>>
                /\ pc' = "verify"
                /\ mi' = mi
                /\ result' = result
           ELSE /\ fs' = f1
                /\ log' = Append(log, Entry(name, outcome, fs, arg))
                /\ Advance
                /\ result' = result
    /\ UNCHANGED <<arg, orig, status, vres, op, nops, nprov>>
    /\ UNCHANGED <<batchvars, mainvars>>

\* the loop without line 625: True is returned right after the confirmation
Verify_without_reinforcement ==
    /\ pc = "verify"
    /\ LET v == verify_eviction(fs, arg, orig)
       IN  /\ vres' = v
           /\ status' = get_icloud_file_status(fs, arg)
           /\ fs' = fs
           /\ IF v.confirmed
              THEN /\ log' = Append(log, Entry("verify", "True", fs, arg))
                   /\ result' = "True"
                   /\ pc' = return_to
                   /\ mi' = mi
              ELSE /\ log' = Append(log, Entry("verify", "False", fs, arg))
                   /\ result' = result
                   /\ Advance
    /\ UNCHANGED <<arg, orig, op, nops, nprov>>
    /\ UNCHANGED <<batchvars, mainvars>>

\* lines 618-632: verify; confirmed: reinforce the policies and return True
Verify ==
    /\ pc = "verify"
    /\ LET v == verify_eviction(fs, arg, orig)
       IN  /\ vres' = v
           /\ status' = get_icloud_file_status(fs, arg)
           /\ IF propagated("verify", fs, arg, "ok") # {}
              THEN Raise("verify", fs)
              ELSE IF v.confirmed /\ propagated("prevent", fs, arg, "ok") # {}
              THEN Raise("prevent", fs)
              ELSE IF v.confirmed
              THEN /\ fs' = prevent_auto_redownload(fs, arg)
                   /\ log' = log \o <<Entry("verify", "True", fs, arg),
                                      Entry("prevent", "-", fs, arg)>>
                   /\ result' = "True"
                   /\ pc' = return_to
                   /\ mi' = mi
              ELSE /\ fs' = fs
                   /\ log' = Append(log, Entry("verify", "False", fs, arg))
                   /\ result' = result
                   /\ Advance
    /\ UNCHANGED <<arg, orig, op, nops, nprov>>
    /\ UNCHANGED <<batchvars, mainvars>>

\* lines 636-639 and check_eviction_after_delay
Delayed ==
    /\ pc = "delayed"
    /\ LET v == verify_eviction(fs, arg, orig)
       IN  /\ vres' = v
           /\ status' = get_icloud_file_status(fs, arg)
           /\ IF propagated("verify", fs, arg, "ok") # {}
              THEN Raise("verify", fs)
              ELSE /\ log' = log \o
                        <<Entry("sleep5", "-", fs, arg),
                          Entry("verify", IF v.confirmed THEN "True" ELSE "False",
                                fs, arg)>>
                   /\ IF v.confirmed
                      THEN /\ result' = "True" /\ pc' = return_to
                      ELSE /\ result' = result /\ pc' = "final"
                   /\ UNCHANGED <<fs, mi>>
    /\ UNCHANGED <<arg, orig, op, nops, nprov>>
    /\ UNCHANGED <<batchvars, mainvars>>

\* lines 641-667: the final status check and the last policy write
Final ==
    /\ pc = "final"
    /\ LET final_status == get_icloud_file_status(fs, arg)
       IN  /\ status' = final_status
           /\ IF propagated("prevent", fs, arg, "ok") # {}
              THEN Raise("prevent", fs)
              ELSE /\ result' =
                        IF /\ final_status # None
                           /\ \/ ~final_status.is_downloaded
                              \/ final_status.is_placeholder
                        THEN "True" ELSE "False"
                   /\ fs' = prevent_auto_redownload(fs, arg)
                   /\ log' = log \o <<Entry("classify", "-", fs, arg),
                                      Entry("prevent", "-", fs, arg)>>
                   /\ pc' = return_to
                   /\ mi' = mi
    /\ UNCHANGED <<arg, orig, vres, op, nops, nprov>>
    /\ UNCHANGED <<batchvars, mainvars>>

(***************************************************************************)
(* The provider daemon and the operating system, acting between the steps  *)
(* of a run: eviction requests are processed asynchronously, metadata may  *)
(* lag, the file may be re-downloaded or replaced by its sidecar.          *)
(***************************************************************************)
ProviderKinds == {"evict", "stale", "shrink", "sidecar", "download"}

Provider(kind) ==
    /\ InRun
    /\ nprov < MaxProvider
    /\ fs.exists
    /\ fs' = CASE kind = "evict" ->
                    [fs EXCEPT !.resident = 0,
                               !.attrs[FP_MATERIALIZED] = Absent,
                               !.attrs[IC_MATERIALIZED] = Absent]
               [] kind = "stale" -> [fs EXCEPT !.resident = 0]
               [] kind = "shrink" ->
                    [fs EXCEPT !.size = Min(fs.size, 500),
                               !.resident = Min(fs.size, 500)]
               [] kind = "sidecar" -> [fs EXCEPT !.exists = FALSE]
               [] kind = "download" ->
                    [fs EXCEPT !.resident = fs.size,
                               !.attrs[FP_MATERIALIZED] = "1",
                               !.attrs[FP_PLACEHOLDER] = Absent,
                               !.attrs[IC_PLACEHOLDER] = Absent]
    /\ fs' # fs
    /\ nprov' = nprov + 1
    /\ UNCHANGED <<pc, mi, arg, orig, status, vres, result, log, op, nops>>
    /\ UNCHANGED <<batchvars, mainvars>>

\* the path, replaced by its sidecar, holds the file again: the provider
\* has materialized it anew while the program slept, which ends what it does
\* to the file during this operation
Reappear ==
    /\ pc \in {"verify", "delayed", "final"}
    /\ ~fs.exists
    /\ fs' = [fs EXCEPT !.exists = TRUE]
    /\ nprov' = MaxProvider
    /\ UNCHANGED <<pc, mi, arg, orig, status, vres, result, log, op, nops>>
    /\ UNCHANGED <<batchvars, mainvars>>

(***************************************************************************)
(* Other menu choices of interactive_icloud_manager.                       *)
(***************************************************************************)
\* choice 4: check file status
Choice4(p) ==
    /\ pc = "menu"
    /\ nops < MaxOps
    /\ arg' = p
    /\ status' = get_icloud_file_status(fs, p)
    /\ op' = "status"
    /\ nops' = nops + 1
    /\ log' = <<>>
    /\ vres' = NoVerdict
    /\ result' = "None"
    /\ UNCHANGED <<fs, pc, mi, orig, nprov>>
    /\ UNCHANGED <<batchvars, mainvars>>

\* choice 8 with the path of a file (lines 805-806)
Choice8File(p) ==
    /\ pc = "menu"
    /\ nops < MaxOps
    /\ Resolves(fs, p)
    /\ arg' = p
    /\ fs' = prevent_auto_redownload(fs, p)
    /\ log' = <<Entry("prevent", "-", fs, p)>>
    /\ op' = "policy_file"
    /\ nops' = nops + 1
    /\ vres' = NoVerdict
    /\ result' = "None"
    /\ UNCHANGED <<pc, mi, orig, status, nprov>>
    /\ UNCHANGED <<batchvars, mainvars>>

\* choice 8 with the folder that holds the file; p is the path the walk yields
Choice8Dir(p) ==
    /\ pc = "menu"
    /\ nops < MaxOps
    /\ Resolves(fs, p)
    /\ arg' = p
    /\ LET st == get_icloud_file_status(fs, p)
       IN  /\ status' = st
           /\ IF st # None /\ st.is_icloud_file
              THEN /\ fs' = prevent_auto_redownload(fs, p)
                   /\ log' = <<Entry("prevent", "-", fs, p)>>
              ELSE /\ fs' = fs
                   /\ log' = <<>>
    /\ op' = "policy_dir"
    /\ nops' = nops + 1
    /\ vres' = NoVerdict
    /\ result' = "None"
    /\ UNCHANGED <<pc, mi, orig, nprov>>
    /\ UNCHANGED <<batchvars, mainvars>>

(***************************************************************************)
(* Files of the model.                                                     *)
(***************************************************************************)
AttrFn(S, v1, v2) ==
    [n \in AttrNames |->
        IF n \notin S THEN Absent
        ELSE IF n = FP_MATERIALIZED THEN v1
        ELSE IF n = IC_MATERIALIZED THEN v2
        ELSE "1"]

\* every attribute set of at most maxn of the given names
AttrSets(names, maxn, values) ==
    {AttrFn(S, v1, v2) :
        S \in {X \in SUBSET names : Cardinality(X) <= maxn},
        v1 \in values, v2 \in values}

\* reported size, readable bytes (some of residents, or all), read failure
Contents(sizes, residents) ==
    {c \in [size : sizes, resident : residents \cup sizes, readfail : BOOLEAN] :
        /\ c.resident \in residents \cup {c.size}
        /\ c.resident <= c.size
        /\ c.size <= 1024 => (c.resident = c.size /\ ~c.readfail)
        /\ c.readfail => c.resident = 0}

File(path, exists, access, c, attrs, deny) ==
    [path |-> path, exists |-> exists, access |-> access, size |-> c.size,
     resident |-> c.resident, readfail |-> c.readfail, attrs |-> attrs,
     deny |-> deny]

ClassifySizes == {0, 500, 1024, 1025, 10000, 10001, 200000}
ClassifyResidents == {0, 500, 999, 1000, 1023}

ClassifyFiles ==
    {File(path, TRUE, "ok", c, a, {}) :
        path \in FilePaths,
        c \in Contents(ClassifySizes, ClassifyResidents),
        a \in AttrSets(AttrNames, MaxAttrs, MatValues)}
    \cup
    {File(path, ex, acc, [size |-> 500, resident |-> 500, readfail |-> FALSE],
          a, {}) :
        path \in FilePaths, ex \in BOOLEAN, acc \in {"nolist", "nostat"},
        a \in AttrSets(AttrNames, 1, {"1"})}

RunSizes == {0, 500, 200000}
RunMatValues == {"1", "0"}
\* the attributes a file may carry before a menu session
RunAttrNames ==
    { FP_MATERIALIZED, IC_MATERIALIZED, FP_PLACEHOLDER, FP_POLICY, QUARANTINE }
DenySets == {{}, AttrNames, {FP_MATERIALIZED, FP_PLACEHOLDER}}

RunFiles ==
    {File(path, TRUE, "ok", c, a, d) :
        path \in FilePaths,
        c \in Contents(RunSizes, {0}),
        a \in AttrSets(RunAttrNames, RunMaxAttrs, RunMatValues),
        d \in DenySets}

OrigSizes == {NoSize, 0, 500, 5000, 5001, 200000}

(***************************************************************************)
(* Specification of a menu session.                                        *)
(***************************************************************************)
InitRest ==
    /\ pc = "menu"
    /\ mi = 1
    /\ arg = ""
    /\ orig = NoSize
    /\ status = None
    /\ vres = NoVerdict
    /\ result = "None"
    /\ log = <<>>
    /\ op = "none"
    /\ nops = 0
    /\ nprov = 0
    /\ file_paths = <<>>
    /\ results = <<>>
    /\ tree = <<>>
    /\ walk = <<>>

Init ==
    /\ fs \in RunFiles
    /\ InitRest

Next ==
    \/ \E p \in PathInputs(fs.path) : Start(p)
    \/ \E outcome \in ToolOutcomes : Try(outcome)
    \/ Verify
    \/ Delayed
    \/ Final
    \/ \E kind \in ProviderKinds : Provider(kind)
    \/ Reappear
    \/ \E p \in PathInputs(fs.path) : Choice4(p)
    \/ \E p \in PathInputs(fs.path) : Choice8File(p)
    \/ \E p \in PathInputs(fs.path) : Choice8Dir(p)

Spec == Init /\ [][Next]_vars

\* the files of the runs whose termination is checked
LiveFiles ==
    {File(RootFile, TRUE, "ok", c, a, d) :
        c \in { [size |-> 500, resident |-> 500, readfail |-> FALSE],
                [size |-> 200000, resident |-> 200000, readfail |-> FALSE] },
        a \in AttrSets({FP_MATERIALIZED}, RunMaxAttrs, {"1"}),
        d \in {{}, AttrNames}}

\* a tool exits with 0 or is not installed
LiveOutcomes == {"ok", "missing"}

\* what the provider does to the file during a run
LiveProviderKinds == {"evict", "sidecar"}

InitLive ==
    /\ fs \in LiveFiles
    /\ InitRest

\* one step of a run of remove_download_smart
RunStep ==
    \/ \E outcome \in LiveOutcomes : Try(outcome)
    \/ Verify
    \/ Delayed
    \/ Final

NextLive ==
    \/ Start(RootFile)
    \/ RunStep
    \/ \E kind \in LiveProviderKinds : Provider(kind)
    \/ Reappear

\* the runs when every tool invocation and every sleep returns:
\* remove_download_smart is sequential code, so the step it is at is taken
SpecLive == InitLive /\ [][NextLive]_vars /\ WF_vars(RunStep)

(***************************************************************************)
(* Specification of the classifier and the verifier as functions of the    *)
(* file: the file is drawn from ClassifyFiles and each is applied to it.   *)
(***************************************************************************)
\* each drawn file is examined once: the functions change nothing
Classify(p) ==
    /\ op = "none"
    /\ arg' = p
    /\ status' = get_icloud_file_status(fs, p)
    /\ op' = "classify"
    /\ vres' = NoVerdict
    /\ orig' = NoSize
    /\ UNCHANGED <<fs, pc, mi, result, log, nops, nprov>>
    /\ UNCHANGED <<batchvars, mainvars>>

VerifyCall(p, original_size) ==
    /\ op = "none"
    /\ arg' = p
    /\ orig' = original_size
    /\ status' = get_icloud_file_status(fs, p)
    /\ vres' = verify_eviction(fs, p, original_size)
    /\ op' = "verify"
    /\ UNCHANGED <<fs, pc, mi, result, log, nops, nprov>>
    /\ UNCHANGED <<batchvars, mainvars>>

InitClassify ==
    /\ fs \in ClassifyFiles
    /\ InitRest

NextClassify ==
    \/ \E p \in PathInputs(fs.path) : Classify(p)
    \/ \E p \in PathInputs(fs.path), o \in OrigSizes : VerifyCall(p, o)

SpecClassify == InitClassify /\ [][NextClassify]_vars

(***************************************************************************)
(* Strings of paths and answers: str.lower, str.strip, os.path.basename,   *)
(* os.path.dirname, pathlib's suffix.                                      *)
(***************************************************************************)
lower_char(c) ==
    CASE c = "A" -> "a" [] c = "B" -> "b" [] c = "C" -> "c" [] c = "D" -> "d"
      [] c = "E" -> "e" [] c = "F" -> "f" [] c = "G" -> "g" [] c = "H" -> "h"
      [] c = "I" -> "i" [] c = "J" -> "j" [] c = "K" -> "k" [] c = "L" -> "l"
      [] c = "M" -> "m" [] c = "N" -> "n" [] c = "O" -> "o" [] c = "P" -> "p"
      [] c = "Q" -> "q" [] c = "R" -> "r" [] c = "S" -> "s" [] c = "T" -> "t"
      [] c = "U" -> "u" [] c = "V" -> "v" [] c = "W" -> "w" [] c = "X" -> "x"
      [] c = "Y" -> "y" [] c = "Z" -> "z" [] OTHER -> c

RECURSIVE lower(_)
lower(s) ==
    IF Len(s) = 0 THEN ""
    ELSE lower_char(SubSeq(s, 1, 1)) \o lower(SubSeq(s, 2, Len(s)))

RECURSIVE strip(_)
strip(s) ==
    IF Len(s) = 0 THEN ""
    ELSE IF SubSeq(s, 1, 1) = " " THEN strip(SubSeq(s, 2, Len(s)))
    ELSE IF SubSeq(s, Len(s), Len(s)) = " " THEN strip(SubSeq(s, 1, Len(s) - 1))
    ELSE s

\* the last place of the character c in s, 0 when there is none
LastIndex(s, c) ==
    LET at == {i \in 1..Len(s) : SubSeq(s, i, i) = c}
    IN  IF at = {} THEN 0 ELSE CHOOSE i \in at : \A j \in at : j <= i

basename(p) == SubSeq(p, LastIndex(p, "/") + 1, Len(p))

dirname(p) == SubSeq(p, 1, LastIndex(p, "/") - 1)

\* Path.suffix: from the last dot of the name, unless the name starts with it
suffix(p) ==
    LET b == basename(p)
        i == LastIndex(b, ".")
    IN  IF i <= 1 THEN "" ELSE SubSeq(b, i, Len(b))

(***************************************************************************)
(* Discovery and the loops over the files found: batch_remove_downloads,   *)
(* menu choice 3 and menu choice 7 (find_and_evict_all_music_files).       *)
(***************************************************************************)
MaxBatch == 2       \* files in the list given to batch_remove_downloads

RootText == icloud_drive_path \o "/b.txt"
RootUpper == icloud_drive_path \o "/C.MP3"
\* a path that names no file
GonePath == icloud_drive_path \o "/gone.mp3"
Desktop == Home \o "/Desktop"

music_extensions == {".mp3", ".m4a", ".aac", ".flac", ".wav", ".ogg", ".wma"}

\* Path(folder).rglob("*") with is_file(): the paths of the files below the
\* folder, as pathlib composes them from the folder as given
rglob(f, folder) ==
    LET folder_abs == IF folder = "." THEN Cwd ELSE abspath(folder)
    IN  IF f.exists /\ dirname(f.path) = folder_abs
        THEN <<IF folder = "." THEN basename(f.path)
               ELSE folder \o "/" \o basename(f.path)>>
        ELSE <<>>

\* lines 479-484: the file is reported as a downloaded cloud file
found_downloaded(f, file_path) ==
    LET st == get_icloud_file_status(f, file_path)
    IN  st # None /\ st.is_icloud_file /\ st.is_downloaded

\* discovery that keeps every cloud file, downloaded or not
find_icloud_files(f, search_path) ==
    SelectSeq(rglob(f, search_path),
              LAMBDA p : LET st == get_icloud_file_status(f, p)
                         IN  st # None /\ st.is_icloud_file)

\* lines 458-507
find_downloaded_icloud_files(f, search_path) ==
    SelectSeq(rglob(f, search_path), LAMBDA p : found_downloaded(f, p))

\* lines 852-886: the downloaded music files of the iCloud Drive folder
downloaded_music_files(f) ==
    SelectSeq(rglob(f, icloud_drive_path),
              LAMBDA p : /\ lower(suffix(p)) \in music_extensions
                         /\ found_downloaded(f, p))

\* the walk as the log keeps it: each file met, with what discovery made of it
Walked(f, paths) ==
    [i \in 1..Len(paths) |->
        [call |-> "walked", out |-> paths[i],
         cloud |-> found_downloaded(f, paths[i])]]

\* the call of a loop over the list paths
EnterLoop(name, paths, entries) ==
    /\ pc = "menu"
    /\ op = "none"
    /\ op' = name
    /\ nops' = nops + 1
    /\ file_paths' = paths
    /\ results' = <<>>
    /\ log' = entries
    /\ pc' = "batch"
    /\ nprov' = 0
    /\ UNCHANGED <<fs, mi, arg, orig, status, vres, result, mainvars>>

\* the menu choice ends without a loop
NoLoop(name, entries) ==
    /\ pc = "menu"
    /\ op = "none"
    /\ op' = name
    /\ nops' = nops + 1
    /\ log' = entries
    /\ UNCHANGED <<fs, pc, mi, arg, orig, status, vres, result, nprov, batchvars,
                   mainvars>>

\* batch_remove_downloads(file_paths), lines 431-440
BatchCall(paths) == EnterLoop("batch", paths, <<>>)

Prompt(answer) == [call |-> "confirm", out |-> answer, cloud |-> FALSE]

\* menu choice 3, lines 769-781
Choice3(folder_path, answer) ==
    /\ pc = "menu"
    /\ op = "none"
    /\ LET folder == IF folder_path = "" THEN Desktop ELSE folder_path
           files == find_downloaded_icloud_files(fs, folder)
           seen == Walked(fs, rglob(fs, folder))
       IN  IF files = <<>> THEN NoLoop("choice3", seen)
           ELSE IF lower(answer) = "y"
           THEN EnterLoop("choice3", files, Append(seen, Prompt(answer)))
           ELSE NoLoop("choice3", Append(seen, Prompt(answer)))

\* menu choice 7, lines 800-801 and 828-926
Choice7(answer) ==
    /\ pc = "menu"
    /\ op = "none"
    /\ LET files == downloaded_music_files(fs)
           seen == Walked(fs, SelectSeq(rglob(fs, icloud_drive_path),
                                        LAMBDA p : lower(suffix(p)) \in music_extensions))
       IN  IF files = <<>> THEN NoLoop("choice7", seen)
           ELSE IF lower(strip(answer)) = "y"
           THEN EnterLoop("choice7", files, Append(seen, Prompt(answer)))
           ELSE NoLoop("choice7", Append(seen, Prompt(answer)))

\* a loop that gives up after the first file that was not evicted
more_files_while_successful(done, paths) ==
    /\ Len(done) < Len(paths)
    /\ \A i \in 1..Len(done) : done[i].success

\* lines 440 and 922: the for loop has a next file
more_files(done, paths) == Len(done) < Len(paths)

\* lines 440-444 and 922-926: the next file of the list is given to
\* remove_download_smart (lines 580-597)
BatchNext ==
    /\ pc = "batch"
    /\ more_files(results, file_paths)
    /\ LET file_path == file_paths[Len(results) + 1]
           abs_path == abspath(file_path)
           initial_status == get_icloud_file_status(fs, abs_path)
           early == entry_checks(fs, abs_path, initial_status)
       IN  /\ log' = Append(log, [call |-> "run", out |-> file_path,
                                  cloud |-> IsCloud(fs, file_path)])
           /\ arg' = abs_path
           /\ status' = initial_status
           /\ result' = early
           /\ IF early = "None"
              THEN /\ pc' = "try" /\ orig' = initial_status.file_size
              ELSE /\ pc' = "collect" /\ orig' = NoSize
    /\ mi' = 1
    /\ vres' = NoVerdict
    /\ UNCHANGED <<fs, op, nops, nprov, batchvars, mainvars>>

\* lines 446-449: the outcome of the run is recorded (lines 928-931 count the
\* outcomes, which is the number of entries of either kind); an exception
\* that left the run leaves the loop as well
BatchCollect ==
    /\ pc = "collect"
    /\ IF result = "raise"
       THEN /\ pc' = "menu" /\ results' = results
       ELSE /\ pc' = "batch"
            /\ results' = Append(results, [file |-> file_paths[Len(results) + 1],
                                           success |-> result = "True"])
    /\ UNCHANGED <<fs, mi, arg, orig, status, vres, result, log, op, nops, nprov,
                   file_paths, mainvars>>

\* line 456 (937): the list is exhausted, the loop returns
BatchReturn ==
    /\ pc = "batch"
    /\ ~more_files(results, file_paths)
    /\ pc' = "menu"
    /\ UNCHANGED <<fs, mi, arg, orig, status, vres, result, log, op, nops, nprov,
                   batchvars, mainvars>>

\* the files of the batch model
BatchPaths == FilePaths \cup {RootText, RootUpper}

BatchFiles ==
    {File(path, TRUE, "ok", c, a, d) :
        path \in BatchPaths,
        c \in { [size |-> 500, resident |-> 500, readfail |-> FALSE],
                [size |-> 200000, resident |-> 200000, readfail |-> FALSE],
                [size |-> 200000, resident |-> 0, readfail |-> FALSE] },
        a \in AttrSets({FP_MATERIALIZED, QUARANTINE}, RunMaxAttrs, {"1"}),
        d \in {{}}}

\* the lists batch_remove_downloads may be given
BatchLists(f) ==
    UNION {[1..n -> PathInputs(f.path) \cup {GonePath}] : n \in 0..MaxBatch}

FolderInputs(f) == {"", ".", dirname(f.path)}

Answers == {"y", "Y", " y", "n", ""}

\* the tools are installed and work, or none of them is installed
BatchOutcomes == {"ok", "missing"}

\* what the provider does to a file while a loop runs
BatchProviderKinds == {"evict", "sidecar"}

InitBatch ==
    /\ fs \in BatchFiles
    /\ InitRest

NextBatch ==
    \/ \E paths \in BatchLists(fs) : BatchCall(paths)
    \/ \E folder \in FolderInputs(fs), answer \in Answers : Choice3(folder, answer)
    \/ \E answer \in Answers : Choice7(answer)
    \/ BatchNext
    \/ BatchCollect
    \/ BatchReturn
    \/ \E outcome \in BatchOutcomes : Try(outcome)
    \/ Verify
    \/ Delayed
    \/ Final
    \/ \E kind \in BatchProviderKinds : Provider(kind)
    \/ Reappear

SpecBatch == InitBatch /\ [][NextBatch]_vars

(***************************************************************************)
(* src/main.py: the walk over the iCloud Drive folder of one user.  The    *)
(* state of src/archive/program.py plays no part in it.                    *)
(***************************************************************************)
\* line 4
user == "dennisporter"

\* line 32
icloud_path == "/Users/" \o user \o "/Library/Mobile Documents/com~apple~CloudDocs"

SubDir == icloud_path \o "/sub"

\* os.path.join on a non-empty directory and a relative name
join(dir_name, name) == dir_name \o "/" \o name

\* the directories of the folder, and the directories each of them holds
TreeDirs == {icloud_path, SubDir}
subdirs(d) == IF d = icloud_path THEN <<SubDir>> ELSE <<>>

\* the names a directory may hold, in the order the listing gives them
NamesIn(d) ==
    IF d = icloud_path THEN <<".a.mp3.icloud", "B.MP3", "a.mp3", "c.txt">>
    ELSE <<".a.mp3.icloud", "a.mp3">>

TreePaths ==
    UNION {{join(d, NamesIn(d)[i]) : i \in 1..Len(NamesIn(d))} : d \in TreeDirs}

\* the sidecars among them, and the sidecar that stands for each other file
SidecarPaths == {p \in TreePaths : Len(p) > 7 /\ SubSeq(p, Len(p) - 6, Len(p)) = ".icloud"}
SidecarFor ==
    [p \in TreePaths \ SidecarPaths |->
        dirname(p) \o "/" \o "." \o basename(p) \o ".icloud"]

\* os.path.exists
exists(t, filepath) == filepath \in DOMAIN t /\ t[filepath].exists

\* str.endswith
endswith(str, ext) ==
    /\ Len(str) >= Len(ext)
    /\ SubSeq(str, Len(str) - Len(ext) + 1, Len(str)) = ext

\* line 20
main_music_extensions == <<".mp3", ".m4a", ".flac", ".wav", ".aac", ".ogg", ".wma">>

\* the test of line 24 without lower()
is_music_as_spelled(file) ==
    \E i \in 1..Len(main_music_extensions) : endswith(file, main_music_extensions[i])

\* line 24
is_music(file) ==
    \E i \in 1..Len(main_music_extensions) :
        endswith(lower(file), main_music_extensions[i])

\* lines 6-14
is_icloud_file_evicted(t, filepath) ==
    IF ~exists(t, filepath)
    THEN LET base_name == basename(filepath)
             dir_name == dirname(filepath)
             icloud_name == "." \o base_name \o ".icloud"
         IN  exists(t, join(dir_name, icloud_name))
    ELSE t[filepath].size = 0

\* os.walk lists a directory when it reaches it: the names present then
listing(t, d) == SelectSeq(NamesIn(d), LAMBDA name : exists(t, join(d, name)))

\* what the log keeps of a file taken from the listing: the facts lines 7-14
\* read at that moment
Seen(t, name, filepath) ==
    [call |-> "walked", out |-> name, path |-> filepath,
     exists |-> exists(t, filepath),
     size |-> IF exists(t, filepath) THEN t[filepath].size ELSE 0,
     sidecars |-> {p \in SidecarPaths : exists(t, p)}]

Evict(filepath, outcome) ==
    [call |-> "brctl evict", out |-> outcome, path |-> filepath]

\* line 33: find_and_evict_music_files(icloud_path)
MainCall ==
    /\ pc = "main"
    /\ pc' = "walk"
    /\ op' = "main"
    /\ walk' = [root |-> "", files |-> <<>>, dirs |-> <<icloud_path>>]
    /\ UNCHANGED <<fs, mi, arg, orig, status, vres, result, log, nops, nprov,
                   batchvars, tree>>

\* line 22: os.walk yields the next directory, top down
NextDir ==
    /\ pc = "walk"
    /\ walk.files = <<>>
    /\ walk.dirs # <<>>
    /\ LET d == Head(walk.dirs)
       IN  walk' = [root |-> d, files |-> listing(tree, d),
                    dirs |-> subdirs(d) \o Tail(walk.dirs)]
    /\ UNCHANGED <<fs, pc, mi, arg, orig, status, vres, result, log, op, nops, nprov,
                   batchvars, tree>>

\* lines 23-30 for the next file of the directory.  vanishes: the file is
\* removed between os.path.exists (line 7) and os.stat (line 13), which
\* raises; a brctl that is not installed makes subprocess.run raise.
WalkFile(outcome, vanishes) ==
    /\ pc = "walk"
    /\ walk.files # <<>>
    /\ LET file == Head(walk.files)
           filepath == join(walk.root, file)
       IN  /\ vanishes => exists(tree, filepath)
           /\ walk' = [walk EXCEPT !.files = Tail(walk.files)]
           /\ IF ~is_music(file)
              THEN /\ log' = Append(log, [Seen(tree, file, filepath) EXCEPT !.call = "skipped"])
                   /\ UNCHANGED <<pc, tree>>
              ELSE IF vanishes
              THEN /\ log' = Append(log, [Seen(tree, file, filepath) EXCEPT !.call = "raised"])
                   /\ tree' = [tree EXCEPT ![filepath].exists = FALSE]
                   /\ pc' = "crashed"
              ELSE IF is_icloud_file_evicted(tree, filepath)
              THEN /\ log' = Append(log, Seen(tree, file, filepath))
                   /\ UNCHANGED <<pc, tree>>
              ELSE /\ log' = log \o <<Seen(tree, file, filepath), Evict(filepath, outcome)>>
                   /\ pc' = IF outcome = "missing" THEN "crashed" ELSE "walk"
                   /\ UNCHANGED tree
    /\ UNCHANGED <<fs, mi, arg, orig, status, vres, result, op, nops, nprov, batchvars>>

\* os.walk is exhausted: the program ends
MainDone ==
    /\ pc = "walk"
    /\ walk.files = <<>>
    /\ walk.dirs = <<>>
    /\ pc' = "done"
    /\ UNCHANGED <<fs, mi, arg, orig, status, vres, result, log, op, nops, nprov,
                   batchvars, mainvars>>

\* the provider acts on a file of the folder while the walk runs
MainProvider(p, kind) ==
    /\ pc = "walk"
    /\ nprov < MaxProvider
    /\ p \notin SidecarPaths
    /\ LET sidecar == SidecarFor[p]
       IN  tree' =
             CASE kind = "evict" -> [tree EXCEPT ![p].size = 0]
               [] kind = "sidecar" ->
                    IF sidecar \in TreePaths
                    THEN [tree EXCEPT ![p].exists = FALSE, ![sidecar].exists = TRUE]
                    ELSE [tree EXCEPT ![p].exists = FALSE]
               [] kind = "download" ->
                    IF sidecar \in TreePaths
                    THEN [tree EXCEPT ![p] = [exists |-> TRUE, size |-> 100],
                                      ![sidecar].exists = FALSE]
                    ELSE [tree EXCEPT ![p] = [exists |-> TRUE, size |-> 100]]
    /\ tree' # tree
    /\ nprov' = nprov + 1
    /\ UNCHANGED <<fs, pc, mi, arg, orig, status, vres, result, log, op, nops,
                   batchvars, walk>>

MainProviderKinds == {"evict", "sidecar", "download"}

\* no file, for the state of the other program
NoFile ==
    File("", FALSE, "ok", [size |-> 0, resident |-> 0, readfail |-> FALSE],
         AttrFn({}, "1", "1"), {})

\* a file of the folder: absent, empty or with content
TreeEntries ==
    {[exists |-> FALSE, size |-> 0], [exists |-> TRUE, size |-> 0],
     [exists |-> TRUE, size |-> 100]}

Trees ==
    {t \in [TreePaths -> TreeEntries] :
        \A p \in SidecarPaths : t[p].size = 0}

InitMain ==
    /\ fs = NoFile
    /\ mi = 1
    /\ arg = ""
    /\ orig = NoSize
    /\ status = None
    /\ vres = NoVerdict
    /\ result = "None"
    /\ log = <<>>
    /\ op = "none"
    /\ nops = 0
    /\ nprov = 0
    /\ file_paths = <<>>
    /\ results = <<>>
    /\ pc = "main"
    /\ tree \in Trees
    /\ walk = <<>>

NextMain ==
    \/ MainCall
    \/ NextDir
    \/ \E outcome \in ToolOutcomes, vanishes \in BOOLEAN : WalkFile(outcome, vanishes)
    \/ MainDone
    \/ \E p \in TreePaths, kind \in MainProviderKinds : MainProvider(p, kind)

SpecMain == InitMain /\ [][NextMain]_vars

(***************************************************************************)
(* Properties.                                                             *)
(***************************************************************************)
\* a step that starts remove_download_smart
StartStep == pc = "menu" /\ op' = "smart" /\ nops' = nops + 1

\* a step of menu choice 4
StatusStep == pc = "menu" /\ op' = "status" /\ nops' = nops + 1

\* no provider-namespaced attribute, and the absolute path does not begin
\* with the cloud-drive root
NonCloud(f, p) ==
    /\ \A a \in listxattr(f), ind \in icloud_indicators : ~Contains(a, ind)
    /\ ~StartsWith(abspath(p), icloud_drive_path)

\* C1: a file without provider attributes whose path is not prefixed by the
\* cloud-drive root is classified is_icloud_file = false, and
\* remove_download_smart on it returns False at once: no strategy, no policy
\* write, no verification, the file untouched.
C1_NonCloudFileUntouched ==
    [][ /\ (StatusStep /\ NonCloud(fs, arg') /\ status' # None)
            => ~status'.is_icloud_file
        /\ (StartStep /\ NonCloud(fs, arg'))
            => /\ status' # None => ~status'.is_icloud_file
               /\ result' = "False"
               /\ pc' = "menu"
               /\ log' = <<>>
               /\ vres' = NoVerdict
               /\ fs' = fs ]_vars

C1_Witness ==
    /\ op = "smart" /\ pc = "menu" /\ result = "False" /\ log = <<>>
    /\ fs.path = DocFile /\ fs.size = 200000 /\ fs.resident = 200000
    /\ listxattr(fs) = {QUARANTINE}
    /\ status # None /\ ~status.is_icloud_file

MutatingCalls == {"brctl", "AppleScript", "xattr", "evict", "prevent"}

\* C2: every attribute write and every eviction-tool invocation of a menu
\* session was applied to a file that classification reported as a cloud
\* file at that moment.
C2_OnlyCloudFilesMutated ==
    \A i \in 1..Len(log) :
        (log[i].call \in MutatingCalls /\ log[i].out # "nofile") => log[i].cloud

\* C3: a status with is_icloud_file = true has exactly one of is_downloaded
\* and is_placeholder.
C3_DownloadedXorPlaceholder ==
    (status # None /\ status.is_icloud_file)
        => (status.is_downloaded # status.is_placeholder)

\* an explicit placeholder attribute on a file whose content reads in full
C3_Witness ==
    /\ op = "classify"
    /\ status # None /\ status.is_icloud_file
    /\ FP_PLACEHOLDER \in status.attributes
    /\ fs.attrs[FP_MATERIALIZED] = "1"
    /\ fs.size = 200000 /\ fs.resident = 200000
    /\ status.is_downloaded /\ ~status.is_placeholder

\* C4: a status with is_icloud_file = false has is_downloaded, is_placeholder
\* and is_downloading all false.
C4_NonCloudFlagsFalse ==
    (status # None /\ ~status.is_icloud_file)
        => /\ ~status.is_downloaded
           /\ ~status.is_placeholder
           /\ ~status.is_downloading

\* a large, fully readable local file with attributes of its own
C4_Witness ==
    /\ op = "classify"
    /\ status # None /\ ~status.is_icloud_file
    /\ status.attributes = {QUARANTINE, FINDER_INFO}
    /\ status.file_size = 200000 /\ fs.resident = 200000
    /\ ~status.is_downloaded /\ ~status.is_placeholder

\* C5: whenever verify_eviction confirms, classifying the same path again
\* with the file unchanged reports is_downloaded = false (status is the
\* classification that verification made of the file), and so does
\* classifying it after remove_download_smart has returned True.
C5_ConfirmedIsNotDownloaded ==
    /\ (op = "smart" /\ vres.confirmed)
          => (status # None /\ ~status.is_downloaded)
    /\ (op = "smart" /\ pc = "menu" /\ result = "True")
          => LET s == get_icloud_file_status(fs, arg)
             IN  s # None /\ ~s.is_downloaded

\* the classifier reports a cloud file that is not downloaded
CloudNotDownloaded(f, p) ==
    LET s == get_icloud_file_status(f, p)
    IN  s # None /\ s.is_icloud_file /\ ~s.is_downloaded

\* C6: remove_download_smart on a cloud file classified as not downloaded
\* returns True at once, every time it is called: no strategy, no attribute
\* write, no verification, no sleep, the file unchanged.
C6_AlreadyEvictedIsNoOp ==
    [][ (StartStep /\ CloudNotDownloaded(fs, arg'))
            => /\ result' = "True"
               /\ pc' = "menu"
               /\ log' = <<>>
               /\ vres' = NoVerdict
               /\ fs' = fs ]_vars

\* the second call in a row on a dataless cloud file
C6_Witness ==
    /\ op = "smart" /\ nops = 2 /\ pc = "menu" /\ result = "True" /\ log = <<>>
    /\ status # None /\ status.is_icloud_file /\ status.is_placeholder
    /\ fs.size = 200000 /\ fs.resident = 0
    /\ listxattr(fs) = {}

\* C7: is_icloud_file is true iff an attribute name contains a provider
\* namespace or the absolute path of the file lies under the cloud-drive
\* root, also for a relative path and for a sibling of the root.
C7_CloudIffAttrsOrUnderRoot ==
    (op = "classify" /\ status # None)
        => (status.is_icloud_file
              <=> \/ \E a \in listxattr(fs), ind \in icloud_indicators :
                        Contains(a, ind)
                  \/ Under(abspath(arg), icloud_drive_path))

\* what the attributes alone say: no explicit placeholder, and the first
\* materialized attribute present has a value that means downloaded
AttrsSayDownloaded(f) ==
    LET a == listxattr(f)
        v == IF FP_MATERIALIZED \in a THEN f.attrs[FP_MATERIALIZED]
             ELSE IF IC_MATERIALIZED \in a THEN f.attrs[IC_MATERIALIZED]
             ELSE Absent
    IN  /\ IC_PLACEHOLDER \notin a
        /\ FP_PLACEHOLDER \notin a
        /\ v \notin {Absent, Unreadable, "", "0", "false", "False"}

\* C8: for a cloud file above 1024 bytes a probe that reads nothing gives
\* placeholder, a probe that reads at least min(1024, size) bytes gives
\* downloaded, whatever the attributes say; up to 1024 bytes the probe does
\* not run and the flags are those of the attributes.
C8_ContentProbePrecedence ==
    (op = "classify" /\ status # None /\ status.is_icloud_file)
        => /\ (status.file_size > 1024 /\ ~fs.readfail /\ fs.resident = 0)
                => (status.is_placeholder /\ ~status.is_downloaded)
           /\ (status.file_size > 1024 /\ ~fs.readfail
                  /\ fs.resident >= Min(1024, status.file_size))
                => (status.is_downloaded /\ ~status.is_placeholder)
           /\ status.file_size <= 1024
                => /\ status.is_downloaded = AttrsSayDownloaded(fs)
                   /\ status.is_placeholder = ~AttrsSayDownloaded(fs)

\* readable content against a materialized value of 0 and a placeholder mark
C8_Witness ==
    /\ op = "classify" /\ status # None /\ status.is_icloud_file
    /\ fs.attrs[FP_MATERIALIZED] = "0"
    /\ fs.attrs[FP_PLACEHOLDER] # Absent
    /\ status.file_size = 200000 /\ fs.resident = 200000 /\ ~fs.readfail
    /\ status.is_downloaded /\ ~status.is_placeholder

\* Scenario D, seen right after the verification: brctl was missing, the
\* xattr strategy returned True and the policies were set, then
\* verify_eviction ran with original size 200000 on a file of 500 bytes.
ScenarioD ==
    /\ op = "smart"
    /\ orig = 200000
    /\ Len(log) >= 4
    /\ log[1].call = "brctl" /\ log[1].out = "missing"
    /\ \E i \in 2..(Len(log) - 2) :
          /\ log[i].call = "xattr" /\ log[i].out = "ok"
          /\ log[i + 1].call = "prevent"
          /\ log[i + 2].call = "verify"
          /\ \/ i + 2 = Len(log)
             \/ i + 3 = Len(log) /\ log[i + 3].call = "prevent"
    /\ status # None
    /\ status.file_size = 500

\* C9 as stated: in Scenario D, the attribute writes having succeeded,
\* verify_eviction confirms with the size-reduction reason.
C9_ScenarioD_SizeReason ==
    (ScenarioD /\ fs.deny = {}) => vres = Verdict(TRUE, "size_reduced")

\* C9 amended: in Scenario D, the placeholder attribute written by the xattr
\* strategy being on the file, verify_eviction confirms with the placeholder
\* reason, which it tests before the size.
C9_ScenarioD_PlaceholderReason ==
    (ScenarioD /\ FP_PLACEHOLDER \in status.attributes)
        => vres = Verdict(TRUE, "placeholder")

C9_Witness ==
    /\ ScenarioD
    /\ fs.deny = {}
    /\ FP_PLACEHOLDER \in status.attributes
    /\ vres = Verdict(TRUE, "placeholder")
    /\ result = "True"

\* C10: verify_eviction confirms iff the classification succeeded and the
\* status is placeholder, or not downloaded, or the size is below 10% of a
\* non-zero original, or no materialized attribute is present, or the size
\* equals a non-zero original and a policy attribute is present.
C10_ConfirmedIff ==
    op = "verify" =>
        (vres.confirmed <=>
            /\ status # None
            /\ \/ status.is_placeholder
               \/ ~status.is_downloaded
               \/ orig \notin {NoSize, 0} /\ 10 * status.file_size < orig
               \/ /\ FP_MATERIALIZED \notin status.attributes
                  /\ IC_MATERIALIZED \notin status.attributes
               \/ /\ orig \notin {NoSize, 0}
                  /\ status.file_size = orig
                  /\ \E a \in {FP_POLICY, CD_POLICY, FP_AUTO, CD_AUTO, FP_EVICTED} :
                        a \in status.attributes)

\* confirmed by rule (e) alone: same size, a policy attribute present
C10_Witness ==
    /\ op = "verify"
    /\ vres = Verdict(TRUE, "policy")
    /\ status # None /\ status.is_downloaded /\ ~status.is_placeholder
    /\ status.file_size = 500 /\ orig = 500
    /\ status.attributes = {FP_MATERIALIZED, CD_AUTO}

(***************************************************************************)
(* The strategy loop of remove_download_smart, read off the call log.      *)
(***************************************************************************)
StrategyNames == {"brctl", "AppleScript", "xattr", "evict"}

\* the log entry is a strategy invocation that returned True
ReturnedTrue(e) == e.call \in StrategyNames /\ e.out = "ok"

\* the log entry is a strategy invocation that returned False
ReturnedFalse(e) == e.call \in StrategyNames /\ e.out # "ok"

\* C11 as stated: every strategy invocation, whatever it returned, is
\* followed by prevent_auto_redownload and then by verify_eviction before
\* anything else is called.
C11_PolicyAndVerifyAfterEveryStrategy ==
    op = "smart" =>
        \A i \in 1..Len(log) :
            log[i].call \in StrategyNames =>
                /\ i < Len(log) => log[i + 1].call = "prevent"
                /\ i + 1 < Len(log) => log[i + 2].call = "verify"

\* C11 amended: a strategy invocation that returned True is followed by
\* prevent_auto_redownload and then by verify_eviction before the next
\* strategy is tried; one that returned False is followed by neither: the
\* next call is the next strategy, or the delayed verification after the
\* last one.
C11_PolicyAndVerifyAfterSuccess ==
    op = "smart" =>
        \A i \in 1..Len(log) :
            /\ ReturnedTrue(log[i]) =>
                  /\ i < Len(log) /\ log[i + 1].call = "prevent"
                  /\ (pc # "verify" \/ i + 1 < Len(log)) =>
                        (i + 1 < Len(log) /\ log[i + 2].call = "verify")
            /\ (ReturnedFalse(log[i]) /\ i < Len(log)) =>
                  log[i + 1].call \in (StrategyNames \ {log[i].call}) \cup {"sleep5"}

\* brctl fails and is followed at once by AppleScript, which returns True
\* and is followed by the policy writes and an unconfirmed verification
C11_Witness ==
    /\ op = "smart"
    /\ Len(log) >= 5
    /\ log[1].call = "brctl" /\ log[1].out = "fail"
    /\ log[2].call = "AppleScript" /\ log[2].out = "ok"
    /\ log[3].call = "prevent"
    /\ log[4].call = "verify" /\ log[4].out = "False"
    /\ log[5].call = "xattr"

\* the strategy invocations of the run, in the order they were made
Invoked == SelectSeq(log, LAMBDA e : e.call \in StrategyNames)

\* C12: the strategies are invoked in the order brctl, AppleScript, xattr,
\* evict, each at most once and none before its predecessor; a strategy is
\* invoked only when every verification before it was unconfirmed, and none
\* is invoked after a confirmed verification.
C12_FixedStrategyOrder ==
    op = "smart" =>
        /\ Len(Invoked) <= 4
        /\ \A k \in 1..Len(Invoked) :
              Invoked[k].call = <<"brctl", "AppleScript", "xattr", "evict">>[k]
        /\ \A i \in 1..Len(log), j \in 1..Len(log) :
              (i < j /\ log[i].call = "verify" /\ log[j].call \in StrategyNames)
                  => log[i].out # "True"
        /\ (pc = "try" /\ vres # NoVerdict) => ~vres.confirmed

\* all four tried in turn: two unconfirmed verifications, one failing tool,
\* and a confirmation after the last strategy ends the run
C12_Witness ==
    /\ op = "smart" /\ pc = "menu" /\ result = "True"
    /\ Len(Invoked) = 4
    /\ Invoked[2].out = "fail"
    /\ Len(SelectSeq(log, LAMBDA e : e.call = "verify" /\ e.out = "False")) = 2
    /\ log[Len(log) - 1].call = "verify" /\ log[Len(log) - 1].out = "True"
    /\ log[Len(log) - 2].call = "prevent"
    /\ log[Len(log) - 3].call = "evict"

\* the calls of the log with the given name
Calls(name) == SelectSeq(log, LAMBDA e : e.call = name)

\* a verification of the log confirmed
SomeVerifyConfirmed == \E i \in 1..Len(log) : log[i].call = "verify" /\ log[i].out = "True"

\* the run has returned
Returned == op = "smart" /\ pc = "menu" /\ result \in {"True", "False"}

\* the delayed re-verification and the final status check, as the log shows
\* them: at most one of each; the 5 s wait comes after four strategy
\* invocations and no confirmed verification and is followed by a
\* verification; the re-classification comes after that verification was
\* unconfirmed
DelayedAndFinalInOrder ==
    op = "smart" =>
        /\ Len(Calls("sleep5")) <= 1
        /\ Len(Calls("classify")) <= 1
        /\ \A i \in 1..Len(log) :
              log[i].call = "sleep5" =>
                  /\ Len(SelectSeq(SubSeq(log, 1, i),
                                   LAMBDA e : e.call \in StrategyNames)) = 4
                  /\ \A j \in 1..i : ~(log[j].call = "verify" /\ log[j].out = "True")
                  /\ i < Len(log) /\ log[i + 1].call = "verify"
        /\ \A i \in 1..Len(log) :
              log[i].call = "classify" =>
                  /\ i >= 3 /\ log[i - 2].call = "sleep5"
                  /\ log[i - 1].call = "verify" /\ log[i - 1].out # "True"

\* a run that exhausted the strategies unconfirmed made the delayed
\* re-verification; when that was unconfirmed too it re-classified once and
\* returned True iff the status is not downloaded or placeholder, and a run
\* that returned False ended with prevent_auto_redownload
ExhaustedRunResult ==
    (Returned /\ Len(Invoked) = 4
        /\ \A i \in 1..Len(log) :
              (log[i].call = "verify" /\ log[i].out = "True")
                  => (i > 1 /\ log[i - 1].call = "sleep5")) =>
        /\ Len(Calls("sleep5")) = 1
        /\ ~SomeVerifyConfirmed =>
              /\ Len(Calls("classify")) = 1
              /\ result = "True" <=>
                    (status # None /\ (~status.is_downloaded \/ status.is_placeholder))
              /\ log[Len(log)].call = "prevent"
        /\ SomeVerifyConfirmed => result = "True"

\* a run that invoked a strategy has called prevent_auto_redownload by the
\* time it returns
PolicyCalledBeforeReturn ==
    (Returned /\ Len(Invoked) >= 1) => Len(Calls("prevent")) >= 1

\* C13: with all four strategies exhausted and no verification confirmed
\* there is exactly one delayed re-verification; unconfirmed, it is followed
\* by one re-classification, and the run returns True iff that status is
\* not downloaded or placeholder, else it calls prevent_auto_redownload and
\* returns False.  Every run that attempted a strategy has called
\* prevent_auto_redownload by the time it returns.
C13_ExhaustedThenDelayedThenFinal ==
    /\ DelayedAndFinalInOrder
    /\ ExhaustedRunResult
    /\ PolicyCalledBeforeReturn

\* C14: a verification of the strategy loop (one that follows the policy
\* writes made after a strategy) that confirms is followed by exactly one
\* more prevent_auto_redownload, after which the run has returned True: the
\* policy was applied right before the verification and right after it.
C14_ReinforceOnConfirmation ==
    op = "smart" =>
        \A i \in 1..Len(log) :
            /\ log[i].call = "verify" =>
                  (i > 1 /\ log[i - 1].call \in {"prevent", "sleep5"})
            /\ (log[i].call = "verify" /\ log[i].out = "True"
                   /\ log[i - 1].call = "prevent") =>
                  /\ log[i - 1].out # "nofile"
                  /\ Len(log) = i + 1
                  /\ log[i + 1].call = "prevent" /\ log[i + 1].out # "nofile"
                  /\ pc = "menu"
                  /\ result = "True"
                  /\ vres.confirmed

\* confirmed after the second strategy: policy, verification, policy, True
C14_Witness ==
    /\ op = "smart" /\ pc = "menu" /\ result = "True"
    /\ Len(log) = 5
    /\ log[1].call = "brctl" /\ log[1].out = "missing"
    /\ log[2].call = "AppleScript" /\ log[2].out = "ok"
    /\ log[3].call = "prevent" /\ log[3].out # "nofile"
    /\ log[4].call = "verify" /\ log[4].out = "True"
    /\ log[5].call = "prevent" /\ log[5].out # "nofile"
    /\ fs.attrs[FP_POLICY] = "0"

\* C15: no call of a strategy, of prevent_auto_redownload or of
\* verify_eviction lets an exception reach remove_download_smart, whether
\* the file is missing, the tool is missing, the tool exits non-zero or the
\* attribute writes are denied; and a strategy whose tool is missing or
\* fails returns False: the run goes on, with no policy write and no
\* verification, to the next strategy (after the last, to the delayed
\* verification).
C15_FailuresAbsorbed ==
    op = "smart" =>
        /\ result # "raise"
        /\ \A i \in 1..Len(log) :
              /\ log[i].out # "raise"
              /\ (log[i].call \in StrategyNames /\ log[i].out \in {"missing", "fail"}) =>
                    /\ i = Len(log) => (pc \in {"try", "delayed"} /\ result = "None")
                    /\ i < Len(log) =>
                          log[i + 1].call =
                             (CASE log[i].call = "brctl" -> "AppleScript"
                                [] log[i].call = "AppleScript" -> "xattr"
                                [] log[i].call = "evict" -> "sleep5")

\* every write denied, brctl and evict not installed, osascript failing: the
\* run goes through all four strategies and returns False
C15_Witness ==
    /\ op = "smart" /\ pc = "menu" /\ result = "False"
    /\ fs.exists /\ fs.deny = AttrNames
    /\ Len(Invoked) = 4
    /\ Invoked[1].out = "missing"
    /\ Invoked[2].out = "fail"
    /\ Invoked[3].out = "ok"
    /\ Invoked[4].out = "missing"
    /\ log[Len(log)].call = "prevent"

\* C16: classifying a path that does not exist, or a file whose attribute
\* listing fails, gives None, which is no status; a file whose size alone
\* cannot be read gives a status, with file_size 0.
C16_ClassificationFailureIsNone ==
    op = "classify" =>
        /\ (~(fs.exists /\ abspath(arg) = fs.path) \/ fs.access = "nolist")
              => (status = None /\ status \notin [is_icloud_file : BOOLEAN,
                                                   is_downloaded : BOOLEAN,
                                                   is_downloading : BOOLEAN,
                                                   is_placeholder : BOOLEAN,
                                                   file_size : Nat,
                                                   attributes : SUBSET AttrNames])
        /\ (fs.exists /\ abspath(arg) = fs.path /\ fs.access = "nostat")
              => (status # None /\ status.file_size = 0
                    /\ status.attributes = {n \in AttrNames : fs.attrs[n] # Absent})

\* the listing of a file that carries a provider attribute fails
C16_Witness ==
    /\ op = "classify"
    /\ fs.exists /\ fs.access = "nolist"
    /\ fs.attrs[FP_MATERIALIZED] # Absent
    /\ status = None

\* the size of a file cannot be read: a status with size 0
C16_WitnessSize ==
    /\ op = "classify"
    /\ fs.exists /\ fs.access = "nostat" /\ fs.size = 500
    /\ status # None /\ status.file_size = 0 /\ status.is_icloud_file

(***************************************************************************)
(* batch_remove_downloads                                                  *)
(***************************************************************************)
\* the runs of remove_download_smart a loop has started, in order
Runs == SelectSeq(log, LAMBDA e : e.call = "run")

InBatch == op \in {"batch", "choice3"}

\* C17: batch_remove_downloads works through the list one file at a time
\* and in order: a run starts only when every earlier file has its entry in
\* the results, the k-th run is on the k-th path, no path is run twice or
\* skipped, each entry pairs the path with what its run returned, and the
\* batch returns only with one entry per input, whatever the runs returned
\* and whether or not the paths name files.
C17_BatchIsSequentialAndComplete ==
    InBatch =>
        /\ Len(results) <= Len(file_paths)
        /\ \A i \in 1..Len(results) :
              /\ results[i].file = file_paths[i]
              /\ results[i].success \in BOOLEAN
        /\ Len(Runs) = Len(results) + (IF InRun \/ pc = "collect" THEN 1 ELSE 0)
        /\ \A k \in 1..Len(Runs) : Runs[k].out = file_paths[k]
        /\ (pc = "batch" /\ results # <<>>) =>
              results[Len(results)].success = (result = "True")
        /\ pc = "menu" => Len(results) = Len(file_paths)

\* a batch has returned whose first path names no file and whose second
\* file was evicted after its strategies ran
C17_Witness ==
    /\ op = "batch"
    /\ pc = "menu"
    /\ Len(results) = 2
    /\ file_paths[1] = GonePath
    /\ ~results[1].success
    /\ results[2].success
    /\ \E i \in 1..Len(log) : log[i].call \in StrategyNames

(***************************************************************************)
(* Menu choices 3 and 7                                                    *)
(***************************************************************************)
\* the answer the prompt of the choice takes for a yes: line 774 lowers it,
\* line 910 strips and lowers it
Consents(answer) ==
    IF op = "choice7" THEN lower(strip(answer)) = "y" ELSE lower(answer) = "y"

\* the calls that act on a file
ActingCalls == StrategyNames \cup {"prevent", "run"}

\* C18: under menu choice 3 and menu choice 7 no strategy is invoked, no
\* policy attribute is written and no run of remove_download_smart is
\* started unless the prompt was answered y, and every run is on a path
\* that discovery met and classified as a cloud file that is downloaded.
C18_ConfirmedAndDiscoveredOnly ==
    op \in {"choice3", "choice7"} =>
        /\ (\E i \in 1..Len(log) : log[i].call \in ActingCalls) =>
              \E j \in 1..Len(log) :
                  /\ log[j].call = "confirm"
                  /\ Consents(log[j].out)
                  /\ \A i \in 1..Len(log) : log[i].call \in ActingCalls => j < i
        /\ (\A j \in 1..Len(log) : log[j].call = "confirm" => ~Consents(log[j].out))
              => (file_paths = <<>> /\ pc = "menu")
        /\ \A k \in 1..Len(Runs) :
              \E j \in 1..Len(log) :
                  /\ log[j].call = "walked"
                  /\ log[j].out = Runs[k].out
                  /\ log[j].cloud

\* choice 7, answered " y", has run a strategy on the music file it found
C18_Witness ==
    /\ op = "choice7"
    /\ \E j \in 1..Len(log) : log[j].call = "confirm" /\ log[j].out = " y"
    /\ \E i \in 1..Len(log) : log[i].call \in StrategyNames /\ log[i].out = "ok"

\* choice 3 found a downloaded cloud file and the prompt was answered n
C18_WitnessDeclined ==
    /\ op = "choice3"
    /\ \E j \in 1..Len(log) : log[j].call = "confirm" /\ log[j].out = "n"
    /\ pc = "menu"

(***************************************************************************)
(* src/main.py                                                             *)
(***************************************************************************)
\* the sidecar of each music file of the folder, spelled out
SidecarOf ==
    [p \in {icloud_path \o "/a.mp3", icloud_path \o "/B.MP3", SubDir \o "/a.mp3"} |->
        CASE p = icloud_path \o "/a.mp3" -> icloud_path \o "/.a.mp3.icloud"
          [] p = icloud_path \o "/B.MP3" -> icloud_path \o "/.B.MP3.icloud"
          [] p = SubDir \o "/a.mp3" -> SubDir \o "/.a.mp3.icloud"]

MusicPaths == DOMAIN SidecarOf

\* what the file looked like when it was taken from the listing: evicted
EvictedWhenSeen(e) ==
    IF ~e.exists THEN SidecarOf[e.path] \in e.sidecars ELSE e.size = 0

Evictions(filepath) ==
    {i \in 1..Len(log) : log[i].call = "brctl evict" /\ log[i].path = filepath}

\* C19: is_icloud_file_evicted is true of a missing path iff its sidecar
\* .<basename>.icloud exists in the same directory and of an existing path
\* iff its size is 0; find_and_evict_music_files calls brctl evict once,
\* right after the test, on every music file it takes from the walk for
\* which the test is false, and on no other file.
C19_SidecarOrEmptyIsEvicted ==
    op = "main" =>
        /\ \A p \in MusicPaths :
              is_icloud_file_evicted(tree, p) =
                  IF ~tree[p].exists
                  THEN SidecarOf[p] \in TreePaths /\ tree[SidecarOf[p]].exists
                  ELSE tree[p].size = 0
        /\ \A i \in 1..Len(log) :
              /\ log[i].call = "walked" =>
                    /\ log[i].path \in MusicPaths
                    /\ IF EvictedWhenSeen(log[i])
                       THEN Evictions(log[i].path) = {}
                       ELSE Evictions(log[i].path) = {i + 1}
              /\ log[i].call = "skipped" =>
                    /\ log[i].path \notin MusicPaths
                    /\ Evictions(log[i].path) = {}
              /\ log[i].call = "brctl evict" =>
                    /\ i > 1
                    /\ log[i - 1].call = "walked"
                    /\ log[i - 1].path = log[i].path
        /\ pc = "done" =>
              \A p \in TreePaths :
                  Cardinality({i \in 1..Len(log) :
                      log[i].call \in {"walked", "skipped"} /\ log[i].path = p}) <= 1

\* the walk has ended after brctl evict on B.MP3 of the folder, and none on
\* sub/a.mp3, which was missing with its sidecar beside it while a.mp3 of
\* the folder had content
C19_Witness ==
    /\ pc = "done"
    /\ Evictions(icloud_path \o "/B.MP3") # {}
    /\ Evictions(icloud_path \o "/a.mp3") # {}
    /\ Evictions(SubDir \o "/a.mp3") = {}
    /\ \E i \in 1..Len(log) :
          /\ log[i].call = "walked"
          /\ log[i].path = SubDir \o "/a.mp3"
          /\ ~log[i].exists

(***************************************************************************)
(* The materialized attributes                                             *)
(***************************************************************************)
\* a cloud file was classified that has no explicit placeholder attribute
\* and at most 1024 bytes
AttributesDecide ==
    /\ op = "classify"
    /\ status # None
    /\ status.is_icloud_file
    /\ fs.attrs[IC_PLACEHOLDER] = Absent
    /\ fs.attrs[FP_PLACEHOLDER] = Absent
    /\ status.file_size <= 1024

\* C20: for such a file is_downloaded follows the value of
\* file-provider.materialized when that attribute is present, else the value
\* of icloud.materialized when that one is present, else it is false; the
\* values 1, true, True mean downloaded, 0, false, False mean not
\* downloaded, an empty or unreadable value means not downloaded and any
\* other value means downloaded.
C20_FirstMaterializedAttributeDecides ==
    AttributesDecide =>
        LET fp == fs.attrs[FP_MATERIALIZED]
            ic == fs.attrs[IC_MATERIALIZED]
            v == IF fp # Absent THEN fp ELSE ic
        IN  /\ v \in {"1", "true", "True"} => status.is_downloaded
            /\ v \in {"0", "false", "False"} => ~status.is_downloaded
            /\ v \in {"", Unreadable} => ~status.is_downloaded
            /\ v = Absent => ~status.is_downloaded
            /\ v \notin {"1", "true", "True", "0", "false", "False", "",
                          Unreadable, Absent} => status.is_downloaded

\* both attributes present and in disagreement: the first one, unreadable,
\* decides against the second one, which says downloaded
C20_Witness ==
    /\ AttributesDecide
    /\ fs.attrs[FP_MATERIALIZED] = Unreadable
    /\ fs.attrs[IC_MATERIALIZED] = "1"
    /\ ~status.is_downloaded

\* a value outside the six tokens, on the second attribute alone
C20_WitnessOtherValue ==
    /\ AttributesDecide
    /\ fs.attrs[FP_MATERIALIZED] = Absent
    /\ fs.attrs[IC_MATERIALIZED] = "yes"
    /\ status.is_downloaded

(***************************************************************************)
(* Failed and partial reads of the content probe                           *)
(***************************************************************************)
\* a cloud file above 1024 bytes was classified
Probed ==
    /\ op = "classify"
    /\ status # None
    /\ status.is_icloud_file
    /\ status.file_size > 1024

\* the probe read some bytes, fewer than 1024
PartialRead == ~fs.readfail /\ fs.resident > 0 /\ fs.resident < 1024

ForcedPlaceholder == status.is_placeholder /\ ~status.is_downloaded

\* the flags are those the attributes alone give
FlagsOfAttributes ==
    /\ status.is_downloaded = AttrsSayDownloaded(fs)
    /\ status.is_placeholder = ~AttrsSayDownloaded(fs)

\* C21: for a cloud file above 1024 bytes, a failed read on a file above
\* 10000 bytes and a partial read of fewer than 1000 bytes on a file above
\* 10000 bytes force placeholder and not downloaded; a failed read on a file
\* of at most 10000 bytes, a partial read on a file of at most 10000 bytes
\* and a partial read of 1000 to 1023 bytes leave the flags the attributes
\* gave.
C21_FailedAndPartialReads ==
    Probed =>
        /\ (fs.readfail /\ status.file_size > 10000) => ForcedPlaceholder
        /\ (fs.readfail /\ status.file_size <= 10000) => FlagsOfAttributes
        /\ (PartialRead /\ status.file_size > 10000 /\ fs.resident < 1000)
              => ForcedPlaceholder
        /\ (PartialRead /\ status.file_size <= 10000) => FlagsOfAttributes
        /\ (PartialRead /\ fs.resident >= 1000) => FlagsOfAttributes

\* 1000 bytes read of a file of 200000 bytes whose attribute says
\* downloaded: the flags stay
C21_Witness ==
    /\ Probed
    /\ status.file_size = 200000
    /\ PartialRead /\ fs.resident = 1000
    /\ status.is_downloaded /\ ~status.is_placeholder

\* 999 bytes read of a file of 10001 bytes whose attribute says downloaded:
\* the flags are forced
C21_WitnessForced ==
    /\ Probed
    /\ status.file_size = 10001
    /\ PartialRead /\ fs.resident = 999
    /\ AttrsSayDownloaded(fs)
    /\ ForcedPlaceholder

\* a failed read of a file of 10000 bytes whose attribute says downloaded
C21_WitnessReadFailure ==
    /\ Probed
    /\ status.file_size = 10000
    /\ fs.readfail
    /\ status.is_downloaded

(***************************************************************************)
(* Termination of remove_download_smart                                    *)
(***************************************************************************)
\* the place of a strategy in methods
MethodIndex(name) == CHOOSE i \in 1..Len(methods) : methods[i] = name

\* what one run may call: at most 4 strategies, each later in methods than
\* the one before, at most 5 verifications, of which at most one after the
\* 5 s wait, and at most one final re-classification
RunIsBounded ==
    op = "smart" =>
        /\ Len(Invoked) <= 4
        /\ \A i, j \in 1..Len(Invoked) :
              i < j => MethodIndex(Invoked[i].call) < MethodIndex(Invoked[j].call)
        /\ Len(Calls("verify")) <= Len(Invoked) + Len(Calls("sleep5"))
        /\ Len(Calls("sleep5")) <= 1
        /\ Len(Calls("verify")) <= 5
        /\ Len(Calls("classify")) <= 1

\* C22: when every tool invocation and every sleep returns, a run of
\* remove_download_smart that has entered the strategies returns True or
\* False, and on the way it invokes at most 4 strategies, never one that
\* comes earlier in the list than one already invoked, calls
\* verify_eviction at most 5 times and re-classifies at most once.
C22_RunTerminatesWithinBounds ==
    /\ []RunIsBounded
    /\ (op = "smart" /\ InRun) ~> Returned

\* a run that used everything: 4 strategies, 5 verifications and the final
\* re-classification, and then returned
C22_Witness ==
    /\ Returned
    /\ Len(Invoked) = 4
    /\ Len(Calls("verify")) = 5
    /\ Len(Calls("classify")) = 1

(***************************************************************************)
(* The attribute strategy                                                  *)
(***************************************************************************)
\* the step of a run that invokes remove_download_xattr
XattrStep == pc = "try" /\ methods[mi] = "xattr" /\ log' # log

\* the log has grown by exactly the calls named
Appended(names) ==
    /\ Len(log') = Len(log) + Len(names)
    /\ SubSeq(log', 1, Len(log)) = log
    /\ \A k \in 1..Len(names) : log'[Len(log) + k].call = names[k]

\* C23: when the file exists remove_download_xattr returns True, so the
\* run sets the policies and goes on to verify, also when the removal of
\* the materialized attribute and every attribute write fail and the file
\* is left as it was; when the file does not exist it returns False and
\* the run goes on to the next strategy with no policy write.
C23_XattrReturnsTrueOnExistingFile ==
    [][XattrStep =>
         IF Resolves(fs, arg)
         THEN /\ Appended(<<"xattr", "prevent">>)
              /\ log'[Len(log) + 1].out = "ok"
              /\ pc' = "verify"
              /\ AttrNames \subseteq fs.deny => fs' = fs
         ELSE /\ Appended(<<"xattr">>)
              /\ log'[Len(log) + 1].out = "nofile"
              /\ pc' = "try" /\ mi' = mi + 1
              /\ fs' = fs]_vars

\* the attribute strategy has just returned True on a file none of whose
\* attributes can be written or removed, and the file is as it was before
\* the run
C23_Witness ==
    /\ op = "smart"
    /\ pc = "verify"
    /\ Len(log) >= 2
    /\ log[Len(log) - 1].call = "xattr" /\ log[Len(log) - 1].out = "ok"
    /\ log[Len(log)].call = "prevent"
    /\ fs.exists
    /\ fs.deny = AttrNames
    /\ fs.attrs[FP_POLICY] = Absent /\ fs.attrs[FP_PLACEHOLDER] = Absent

(***************************************************************************)
(* Confirmation by the program's own attribute writes                      *)
(***************************************************************************)
\* the step of a run that verifies after a strategy
VerifyStep == op = "smart" /\ pc = "verify" /\ log' # log

\* nothing but the program has touched the file during the run: it is
\* there with the size the run started with, not empty, all of it readable,
\* and its attributes can be written
OnlyProgramActed ==
    /\ nprov = 0
    /\ fs.exists
    /\ fs.deny = {}
    /\ fs.size = orig
    /\ fs.size # 0
    /\ fs.resident = fs.size
    /\ ~fs.readfail

\* C24: when a strategy has returned True and prevent_auto_redownload has
\* written its attributes, the verification confirms and the run returns
\* True although the size is unchanged and all content is readable: up to
\* 1024 bytes because of the placeholder attribute just written, above 1024
\* bytes because the size is equal and a policy attribute is present.
C24_ConfirmedByOwnWrites ==
    [][(VerifyStep /\ OnlyProgramActed) =>
          /\ vres'.confirmed
          /\ vres'.reason = IF fs.size <= 1024 THEN "placeholder" ELSE "policy"
          /\ result' = "True"
          /\ pc' = "menu"
          /\ fs.attrs[FP_PLACEHOLDER] = "true"]_vars

\* a run returned True on a file of 200000 bytes, all readable, after brctl
\* exited with 0 and nothing happened to the file
C24_Witness ==
    /\ Returned
    /\ result = "True"
    /\ nprov = 0
    /\ fs.exists /\ fs.deny = {}
    /\ fs.size = 200000 /\ fs.resident = 200000
    /\ vres.reason = "policy"
    /\ Len(log) = 4
    /\ log[1].call = "brctl" /\ log[1].out = "ok"

\* the same on a file of 500 bytes, confirmed as a placeholder
C24_WitnessSmall ==
    /\ Returned
    /\ result = "True"
    /\ nprov = 0
    /\ fs.exists /\ fs.deny = {}
    /\ fs.size = 500 /\ fs.resident = 500
    /\ vres.reason = "placeholder"
    /\ Len(log) = 4

(***************************************************************************)
(* The path replaced by its sidecar during a run                           *)
(***************************************************************************)
\* the path of the run names no file, and did when the run made some call
VanishedInRun ==
    /\ op = "smart"
    /\ ~fs.exists
    /\ \E i \in 1..Len(log) : log[i].out # "nofile"

\* the first call of the run that found no file
FirstMiss == CHOOSE i \in 1..(Len(log) + 1) :
                /\ i <= Len(log) => log[i].out = "nofile"
                /\ \A j \in 1..(i - 1) : log[j].out # "nofile"

\* C25: when the path stops naming a file after a strategy of the run was
\* invoked and stays that way, no verification from then on confirms, every
\* strategy invoked from then on returns False and is followed by no policy
\* write or verification, the run goes through all four strategies, the
\* delayed verification and the final status check, and returns False.
C25_VanishedPathIsNotEviction ==
    VanishedInRun =>
        /\ \A j \in FirstMiss..Len(log) : log[j].out = "nofile"
        /\ \A j \in FirstMiss..Len(log) :
              /\ log[j].call = "prevent" => (j > 1 /\ log[j - 1].call = "classify")
              /\ (log[j].call = "verify" /\ j > FirstMiss) =>
                    log[j - 1].call = "sleep5"
        /\ (log # <<>> /\ log[Len(log)].call = "verify" /\ FirstMiss <= Len(log))
              => vres = Verdict(FALSE, "no_status")
        /\ result # "True"
        /\ pc = "menu" =>
              /\ result = "False"
              /\ Len(Invoked) = 4
              /\ Len(Calls("sleep5")) = 1
              /\ Len(Calls("classify")) = 1
              /\ status = None

\* brctl exited with 0 on the file, the provider replaced the path by the
\* sidecar, and the run has returned False
C25_Witness ==
    /\ VanishedInRun
    /\ pc = "menu"
    /\ result = "False"
    /\ log[1].call = "brctl" /\ log[1].out = "ok"
    /\ log[3].call = "verify" /\ log[3].out = "nofile"
====
